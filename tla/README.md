# imq: a verification project

imq is an in-memory queue server in C++. What exists of it is the cluster
layer: nodes that call each other over ZeroMQ, a membership table in each node,
a registration protocol and a failure detector. This directory holds TLA+
modules translated from that code, TLC configurations that check them on small
instances, and theorems checked by TLAPS.

All line numbers refer to the repository; `src/src/Cluster.cpp` is written
`Cluster.cpp` and so on.

## 1. Inventory

| Component | State | Operations | What makes it correct |
|---|---|---|---|
| `Cluster` (Cluster.cpp/hpp), a process-wide singleton | `nodes_`: 30 slots, each a (host, port) or empty. No lock | `NodeInCluster`, `AddNode` (first free slot), `AddNode(idx)`, `RemoveNode`, the two listings, `GetNodeClient`, `Bootstrap` | a registered node stays until it is evicted; the node knows itself; no member twice; only members are asked for clients |
| `Health` (health/) | `potentially_failed_nodes_and_num_retires_` (locked map), one thread | a round every 5 s: one asynchronous CheckHealth call per member, then `HealthyNodeCallback` or `TimedoutNodeCallback` | only silent nodes are evicted, after enough time-outs in a row; a dead node is evicted in the end |
| `IMQNode` | pointers to the server, the table and the health checker | constructor (adds itself), `GetNodesInCluster` (RPC, registers the requester), `JoinCluster`, `Run`, destructor | a join request is answered; joining yields the leader's list |
| `RPCClient`, `RPCResponse`, `RPCCall` (rpc/) | one DEALER socket per callee; per call `running_`, `received_`, `timedout_`, `start_time_` and possibly a thread | `Call`, the receive loop, `Get`, the callbacks, `~RPCResponse` | a call ends; it times out no earlier than its duration; nothing runs after the response is destroyed; a reply goes to its own call |
| `RPCServer`, `RPCServerWorkerPool` | ROUTER and DEALER sockets, a proxy thread, four workers, the RPC map, two `running_` flags | `AddRPC`, `Run`, `Stop`, `Start`, `Work`, `MessageToParts` | each request gets one reply; Stop stops |
| `RPCStore` and its two fronts | `unordered_map` from address to client or server, no lock | `GetRPCClient`, `GetRPCServer` | one object per address |
| `MetaStore` | the address of this node, in two static variables | accessors | is set before the node runs; nothing in the repository does so |
| `utils::HostAndPort` | none | `ToString`, `FromString`, `==` | an address survives the way to text and back |
| `json.hpp` (vendored) | none | construction, access, `dump`, `parse`; pointers, `patch`, `diff`, `flatten`; MessagePack and CBOR, none of which the program uses | what `dump` writes `parse` reads back; a diff makes the target of the source; a document is read from bytes as it was written, or refused |
| `Queue` | a `std::queue` | `Push`, `Pop`, `Size` | not used by anything |
| `State`, `RPCException`, `utils` (sockets, random numbers) | none | helpers | |

How they interact. `IMQNode`'s constructor adds the node to the table and an
RPC to the server. `JoinCluster` makes a synchronous call to a leader, whose
worker threads run `GetNodesInCluster` against the leader's table, and merges
the reply into the local table. `Run` starts the health thread and the server.
From then on three kinds of thread share `nodes_`: the health thread (reads a
copy, evicts), four RPC workers (register joining nodes) and, if the program
joins late, the main thread. The health thread's calls go through the client
store to one socket per callee; a call's reply is read by a thread that the
call creates and whose callbacks change the retry map and the table while the
health thread waits in `join()`.

What is hard here: the table is shared without a lock; the receive thread races
the destructor of its response; replies carry no identifier, so late replies
reach later calls; peers crash, restart, answer late and ask twice; the clock
wraps; starting and stopping race; addresses travel as text through several
nodes, and a conversion may throw in the middle of a merge. There is no
persistence: a node that restarts has an empty table.

`PROJECT.json` lists every hazard with its line and the property that watches
it, or says why none does.

## 2. Plan

| Order | Module | What it adds | State |
|---|---|---|---|
| 1 | `Cluster` | the table's operations | done |
| 2 | `Health` (extends `Cluster`) | health thread, registering workers, peers that fail | done |
| 3 | `RPCChannel` | abstract specification: what the client side of a connection promises | done |
| 4 | `RPCResponse` | the client side thread by thread; implements `RPCChannel` | done |
| 5 | `ClusterProofs`, `HealthProofs`, `RPCResponseProofs` | table lemmas; type correctness and the safety properties of `Health`; those of `RPCResponse`, and that it implements `RPCChannel` | done |
| 6 | `IMQNode` (extends `Health`) | `JoinCluster`/`Bootstrap` as a main thread that merges a leader's list slot by slot | done |
| 7 | `RPCStore` | threads that look up and insert; the destructor of the client that loses | done |
| 8 | `RPCServer` | Run, Stop, worker pool, the node's destructor | done |
| 9 | `Registration` (extends `Cluster`) | the table slot by slot, a slot as a host and a port that are read and written separately | done |
| 10 | `Membership` (extends `Cluster`) | several nodes that join through one leader, with lost, late and repeated messages, crashes and restarts | done |
| 11 | `Text`, `HostAndPort`, `JSON`, `Wire` (extends `Cluster`) | the conversions that an address goes through, and nodes that join one after the other with an unusual address | done |
| 12 | `RPCStoreProofs`, `RPCServerProofs`, `RegistrationProofs`, `IMQNodeProofs` (extends `HealthProofs`), `MembershipProofs` | type correctness and every safety property of these modules | done |
| 13 | `UsesChannels` in `Health` and `SharesLeaderChannel` in `IMQNode`, with proofs | both modules use their connections as `RPCChannel` says, which `RPCResponse` implements | done |
| 14 | `Container`, `Patch`, `Document` | the values of `json.hpp` as containers; pointers, patches and diffs; a program that edits documents with them | done |
| 15 | `Binary`, `Archive` | MessagePack and CBOR; a vector with documents in both | done |

## 3. The modules

### Cluster

`nodes_` is a function from `Slot` to `Node` or `NoNode`; a node is a (host,
port) pair with a non-empty host. The operators are the methods of `Cluster`:
`NodeInCluster`, `AddNode`, `AddNodeAt` (the overload with an index),
`RemoveNode`, `GetNodesWithIdxInCluster`. `First(S)` is the slot at which an
ascending loop stops. Host and port are one value here; in `Registration` and
`Wire` a node is a record of both.

### Health

One node seen from its own threads.

| Action | Code |
|---|---|
| `Init` | `IMQNode::IMQNode` adds the node to the empty table |
| `BeginRound`, `SkipSelf`, `CheckNode` (`CallNode` or `NodeNotFound`), `EndRound` | `Health::PerformHealthChecks`, one iteration of the loop per step; the range-for iterates over a copy (`todo`) |
| `CheckAnswered`, `CheckTimedOut`, `CheckAbandoned` | the three ways the receive loop ends, with the callback it runs |
| `HealthyNodeCallback`, `TimedoutNodeCallback`, `Mark`, `Count` | the methods of the same names (`MarkAsPotentiallyFailing`, `IncrementNumberOfRetriesForNode`) |
| `FindVictim`, `Evict` | `Health::RemoveNodeFromCluster`: the scan of `Cluster::RemoveNode`, then its assignment and the unmarking |
| `CheckRegistered`, `FindSlot`, `WriteSlot`, `SendReply` | a worker in `GetNodesInCluster`: `NodeInCluster`, the search of `AddNode`, its assignment, the listing and reply |
| `Join`, `AnswerCheck`, `Crash`, `Disconnect`, `Restart` | the peers: environment |

The calls are the counters of `RPCChannel`, per peer: `pending` requests and
`unread` replies. The three steps that end a check are its `ReadReply` and
`GiveUp`. `CheckTimedOut` is possible while a reply is unread, because the loop
looks at the timer after its last empty receive. Time itself is not in this
module, only that a call's timer may run out. `UsesChannels` states that this is
what the module does: for each peer, its steps are those of an `RPCChannel` with
one caller (`Connection(n)`), or leave that channel alone. `streak` is a history variable:
time-outs of a peer since its last reply or eviction.

A callback is one step although it takes the map's mutex several times: the
health thread is blocked in `join()` meanwhile and no other thread uses the
map. What it shares is the table, so an eviction is two steps: `FindVictim`
finds the slot and `Evict` clears it, and workers may write in between. In the same way a
registration is `CheckRegistered`, `FindSlot`, `WriteSlot`. A scan of the
table that decides one of these steps, and the copy a round iterates over, are taken in one step.
An exception on the health thread ends the process (`hpc = "terminated"`).

### RPCChannel and RPCResponse

`RPCResponse` has a synchronous caller that runs the loop inside `Get` and an
asynchronous caller whose constructor starts a thread. `response` holds the
fields of each `RPCResponse` by the names of the class; an object that does not
exist is `NoResponse`. `loop` is the place in `MessageReceiptMainWorkLoop`
(`entry`, `test`, `receive`, `timer`, the callbacks, `done`): every access to an
atomic, to the socket and to the clock is its own step. `running_` starts with
either value, since the constructor does not set it. Requests are numbered so that
a reply read by the wrong call can be told; the code has no such number. The
clock counts modulo `WORD`; `elapsed` is the unwrapped count, a history variable.

`RPCChannel` is the abstract specification: a call sends one request, and while
it is open it reads at most one reply, or gives up. `RPCResponse` implements it
with `open` as the callers whose loop has not ended, and the numbers of requests
and replies (`ImplementsChannel`). That is what justifies the way `Health` treats
a call.

### IMQNode

The node of `Health` with the program's thread beside it. All steps of `Health`
are steps of this module once `Run` was called; `JoinCluster` may come before
or after.

| Action | Code |
|---|---|
| `Run` | `IMQNode::Run` as far as the threads of `Health` are concerned |
| `JoinCluster`, `AddLeaderFind`, `AddLeaderWrite` | `Cluster::Bootstrap`: `NodeInCluster(leader)`, and `AddNode` in its two steps |
| `CallLeader`, `LeaderNotFound` | `GetNodeClient` and `Call`, or the exception, which reaches the caller of `JoinCluster` |
| `GetNodeList`, `GetOtherReply`, `GetTimesOut` | what `Get()` returns: only a node list has `"nodes"` |
| `MergeEntry`, `MergeDone` | the loop over the list: `AddNode(idx, ...)`, in the order of the JSON object's keys, which are text |
| `CheckReadsNodeList` | the health check of the leader reads the answer to `JoinCluster` |
| `AnswerJoin`, `LoseJoin` | the leader and the network |

`Health` counts replies; here `socket` gives the leader's replies their order,
since the two kinds are told apart. `LeaderSocket` keeps it in step with the
count. So the leader's connection has two callers, which may wait at the same
time: `SharesLeaderChannel` states that the module refines an `RPCChannel` with
these two. `own_slots` is a history variable: the slots where `MergeEntry` wrote the
node itself while nobody else had chosen them (`Chosen`: a worker that found the
slot free, or an eviction that found its node there). Two threads that use one ZeroMQ socket at the same time have undefined
behaviour in ZeroMQ; here their receives take turns.

### RPCStore

Threads that each look up a client, create and add it when there is none, call,
and drop their `shared_ptr`. `DestroyClient` is the last reference: the
destructor calls `terminate()` on the context, which waits for the socket that
the next line would close, so the thread hangs. The map is read and written
without a lock. `MayMiss` is what that may do: a look-up during a write misses
an entry, or one of two writes is lost; a miss between `HasRPCObject` and
`GetRPCObject` yields a null client and the process crashes. Worse outcomes of
the race (a corrupted bucket list) are not modelled. The node's own server is in
the same map from the start.

### RPCServer

`meta_set` says whether the program has put the node's address into `MetaStore`,
which is where `Health` takes it from. `refused` are the requests whose args
`json::parse` refuses, such as a host that is not UTF-8 (`Wire` has the
conversion): a message is valid (`Valid`) if its RPC is found and its args are
parsed, and is answered by `{"error": 1}` otherwise.

| Action | Code |
|---|---|
| `Init` | the constructors of `IMQNode` and `RPCServer`; `server_thread_` starts null or wild, the pool's `running_` with either value |
| `HealthRun`, `ServerRun` | `IMQNode::Run`: `Health::Run` (adds the RPC, starts a thread), then `RPCServer::Run` |
| `HealthChecksSelf` | a health thread that does not know the node's address finds the node's own server under it and uses it as a client |
| `Stop`, `StopPool` | `~IMQNode`: `RPCServer::Stop`, which then waits in `join()` for ever (`main = "joining"`) |
| `BindFrontend`, `BindBackend`, `PoolStart`, `CreateServerWorker`, `EnterProxy` | `RPCServer::RunServer` and `RPCServerWorkerPool::Start` |
| `Pass` | `zmqpp::proxy`: the backend deals requests out to every socket that connected, also to one whose worker has ended |
| `LoopTest`, `ReceiveMessage`, `Reply` | `RPCServerWorkerPool::Work` with `MessageToParts` (`Outcome`) |
| `Send` | a client, which may send before the server is up |

### Registration

What `Health` takes in one step, here step by step: each loop over `nodes_`
looks at one slot at a time, host first, and an assignment to a slot writes its
two halves in either order (`WriteHalf`). `Request`, `FindHost`, `FindPort`,
`Search`, `ListHost`, `ListPort`, `Reply` are a worker in `GetNodesInCluster`;
`BeginRound`, `ListTest`, `CheckNext`, `FindHost`, `FindPort`, `MemberStays`,
`RemoveNode`, `ScanHost`, `ScanPort` are a round of the health thread, whose call
may be the last of a row of time-outs. The assignment of a `std::string` is one
step, although it is several instructions, and so is reading one. A torn address,
or the empty one, can be called like any other; nobody answers.

The anomalies of this table are there by design of the code: so each property
says of one of them which overlap of operations it needs. `mixed`, `disturbed`
and `twice` are history variables for these causes.

### Membership

Each node has a table of its own; nodes join through one `Leader`. A merge and
an eviction are one step, since `IMQNode` and `Health` take them apart; the
leader's registration keeps its steps for two workers.

| Action | Code |
|---|---|
| `JoinCluster`, `CallLeader`, `LeaderNotFound`, `GetNodeList`, `GetTimesOut` | `Cluster::Bootstrap` on a joiner; `socket` keeps lists that arrived after their call had given up, and the next join reads the oldest |
| `TakeRequest`, `TakeOrphan`, `WriteSlot`, `Reply` | a worker of the leader in `GetNodesInCluster`; an orphan is a request whose sender has crashed |
| `Evict` | the end of a row of time-outs in `Health`: of a node that is down, or (a fault) of one that is up |
| `Run` | `IMQNode::Run` |
| `LoseReply`, `CrashJoiner`, `CrashLeader`, `Restart` | network and processes |

### Text, HostAndPort, JSON, Wire

`Text` is text as sequences of symbols: one per character that some conversion
treats in a way of its own, letters, and whole words for keys and literals. It
has the standard library's part: `to_string`, `stoi`, the order of `std::map`.
`HostAndPort` is `ToString` and `FromString` with its conversions between
`size_t`, `unsigned` and `int`. `JSON` is `dump()` and `parse()` (lexer and
parser) of `json.hpp` for the values that occur in messages.

`Wire` composes them: nodes join one after the other, each through any node that
has joined. The request carries the address as a string and a number, the
answer carries `host:port` texts, which the joiner converts entry by entry
(`MergeEntry`), each of which may throw; so from the second hop on addresses have
been text. One node, the traveller, has any address out of `Travelling`, and its
`MetaStore` may not be set. An entry with an empty host is an empty slot
(`Entry`).

### Container, Patch, Document

Parts of `json.hpp` that the program does not use, and that whoever changes the
vendored copy may want to know about. `Container` has the operations on a value
as an array or an object; an exception is a value of its own (`Thrown`), and so is an
assertion that fails. `Patch` has `json_pointer` with its three ways to follow a
pointer, `flatten` and `unflatten`, the six operations of a patch, and `diff`.
Where the compiler may evaluate two operands in either order, `leftFirst` says
which one. `Document` is a program with a document: it edits it with patches of
any origin (`Edit`), and brings it to another one with the patch that `diff`
makes (`GoToOther`); `ApplyNext` is one round of the loop in `patch()`, `Return`
its end. A failed assertion ends the program.

### Binary, Archive

`Binary` is `to_msgpack`, `to_cbor`, `from_msgpack` and `from_cbor`, byte by byte: a
number is the eight bytes that the code holds it in, so that the widths are the code's and
not a model's. A container is read element by element, each of which
begins where the one before it ended; the first to throw ends it. A length that
does not fit 24 bits is as good as infinite (`MaxLength`). `Archive` is a vector to which
documents are appended, in either format, by this code (`Write`) and by other
writers (`Receive`); its end may be lost (`Lose`), and any document may be read
at any time (`ReadPart`). `Invalid` and `NoString` are what other writers may
send that is no document; they differ in the exception that refuses them.

## 4. The runs

| Run | Checks | Shows |
|---|---|---|
| `health` | `KnowsSelf`, `RetriesCountSilence`, `EvictionAfterSilence`, `UsesChannels`, `RegistrationAnswered`, `EvictedOrAbandoned` | the node never loses its own entry; the retry counters agree with the history; an eviction clears only the slot where it found the silent node, at exactly that node's (`REMOVE_AFTER_NUM_RETRIES` + 2)nd time-out in a row; a check keeps to what a connection allows; every registration is answered; a peer that stays down leaves the table, unless its checks are abandoned again and again |
| `health_members` | `ChecksMembersOnly`: violated | "Node not found." on the health thread |
| `rpc_response` | `LoopWithinResponse`, `NoEarlyTimeout`, `GetNeverInternal`, `BacklogHasCause`, `ImplementsChannel`, `CallReturns` | the life cycle of a call; no call blocks its caller for ever |
| `rpc_response_stale` | `ReplyMatchesCall`: violated | a call reads another call's reply |
| `imq_node` | `SelfUntilMerge`, `OwnEntryStays`, `SharesLeaderChannel` | joining beside all the other threads: the node's own entry is safe until a list is merged; the one that the merge writes in its place stays, unless another thread had chosen the slot before, and without this exception TLC finds a counterexample; health checks and joins, which read each other's replies, use the leader's connection as two callers of one channel |
| `rpc_store` | `SomeThreadLives`, `ConnectionsBounded`, `StoreIsStable` | losing a race hangs a thread, but never the last one; connections are bounded; an entry never changes |
| `rpc_server` | `TerminationHasCause`, `ErrorHasCause`, `NoThreadOutlivesNode`, `StopSticks`, `TakenIsAnswered`, `QueuedIsAnswered` | starting, serving and stopping in any order: what can end the process; a request is answered by an error for what it asks and never for when it comes; a stop drops no request that was taken, and without one none waits for ever |
| `registration` | `OwnSlotWhole`, `WholeUnlessOverlapped`, `Isolated`, `NoMemberTwice`, `ThrowHasCause` | the node's own slot is never written and never about to be, even when torn entries look like other nodes; a torn entry stays only where two assignments overlapped; a requester that was alone gets what an atomic registration would give it; a node is in two slots only if two workers served it at once; the health thread throws only when another thread wrote during its round |
| `membership` | `SlotsAgree`, `JoinedIsMember`, `Forgotten` | a slot number means the same at every joined node, and joined nodes are members, unless the leader evicted somebody, restarted, or registered two nodes at once. Each of the three causes is needed: without it TLC finds a counterexample. A node that is down for good disappears from every table, although late requests and old lists bring it back for a while |
| `wire` | `MessagesSurvive`, `AddressesSurvive`, `ThrowHasCause`, `FalseAddressHasColon`, `JoinedIsRegistered` | a message is read as it was written, for every UTF-8 text; a sound address (no colon in the host, UTF-8, a port that an `int` holds) reaches every table unchanged; what goes wrong with the others, and only then |
| `document` | `DiffReaches`, `FlattenRestores` | wherever edits have led, a diff's operations find what they refer to, one after the other, and make the target; `flatten` can be undone, but for empty containers and the key `"0"` |
| `archive` | `ReadsWhatWasWritten` | a document is read as it was written, on both sides of every width, wherever in the vector it begins; without its end it is refused, never read as another; what is no document is refused by the exception of the comments, but for a key or chunk that is no string |

The type invariants (`TypeOK`, `IMQTypeOK`) and, in `IMQNode`,
`RetriesCountSilence` are not among the properties of the runs: TLC has checked
them on the same instances, and section 5 proves them. TLC has also checked the
inductive invariants of section 5 on the instances of the runs.

`NoThreadOutlivesNode` holds because `~IMQNode` does not return once `Run` was
called: the join of the server thread, which never ends, is all that keeps the
health thread from using a destroyed object.

The two violations are in `PROJECT.json` under `findings`, with the comment or
message in the code that says otherwise.

Seen in the models and not kept as runs, since they follow from the above or
are the excepted cases of a property:

- Two workers pick the same free slot and the second registration erases the
  first (Cluster.cpp:62-65), although both requesters are told that they are
  registered (`WholeUnlessOverlapped` and `SlotsAgree` name the overlap).
- A node that two workers registered twice is still a member after its eviction:
  `RemoveNode` clears the first entry only (Cluster.cpp:79-84).
- "We'll assume there's nothing at this index." (Cluster.cpp:72): the first entry
  of every list is for slot 0, which holds the joining node itself. If the
  leader's table was full, the node is then not in its own table.
- `JoinCluster` throws "Node not found." when the table is full (Cluster.cpp:26,
  91); after `Run`, its `Get` may return a health reply, and it then returns as
  if it had joined (Cluster.cpp:34).
- "Once the main loop exits, we check whether we timed out or have a message."
  (RPCResponse.cpp:123): the destructor of an asynchronous call may clear
  `running_` after the thread set it, and the loop exits with neither. No callback
  runs and the check counts for nothing; hence the last disjunct of
  `EvictedOrAbandoned`.
- "I'll assume the client calling this has checked if the RPC object exists."
  (RPCStore.cpp:28): it has, but not in one step with the insert. The thread whose
  client is not inserted hangs in `~RPCClient`.
- A message of the four parts that the comment at RPCServerWorkerPool.cpp:54
  describes is refused, with an error reply that has no address.
- A host with a colon is cut at its first colon when it comes out of a list, or
  makes the port unreadable, so that `JoinCluster` throws; a host that begins
  with one becomes an empty slot.
- A port above `INT_MAX` is registered and listed, and every node that joins
  later gets an exception out of `JoinCluster` in the middle of the merge.
- A host that is not UTF-8 is refused by the leader's `parse`; the error has no
  `"nodes"`, and `JoinCluster` returns as if it had joined.
- The same happens when `MetaStore` was not set: the request then carries the
  empty address, which `NodeInCluster` finds in any free slot. With `Run`, such a
  node adds CheckHealth to a second server that is never started, so that it
  answers health checks by an error, and its health thread casts its own server
  to a client.

In `json.hpp`, seen with `Document`, whose properties do not ask for them:

- The note on `unflatten` (json.hpp:12409) says that it restores what `flatten`
  was given, apart from empty objects and arrays. An object whose first key is
  `"0"` comes back as an array, or `unflatten` throws at its next key, since
  `get_and_create` begins an array at the token `0` (json.hpp:11757).
- "if there exists a parent it cannot be primitive" (json.hpp:12567): only the
  first token of the path was looked up. Adding at `/k/l` where `k` is a number
  reaches `assert(false)`; with assertions off the operation does nothing.
- The note on `patch` (json.hpp:12452) promises an exception for a pointer that
  cannot be resolved. Removing `/k/l` where `k` is a number changes nothing and throws
  nothing (json.hpp:12594).

And in its binary formats, seen with `Archive`, whose property names the exception:

- "@throw std::invalid_argument if unsupported features from MessagePack were used
  in the given vector v or if the input is not valid MessagePack"
  (json.hpp:7204, 7958; the same for CBOR at 7442 and 8021), and
  `std::out_of_range` for a vector that ends too early. A map with a key that is
  no string (json.hpp:7230, 7769) and a chunk of a CBOR text that is no string
  (json.hpp:7636) are refused by `std::domain_error`, which the conversion to
  `std::string` throws (json.hpp:649). A caller that catches what the comments
  name misses it.

The comment "How many times to keep checking on a node before marking it fully
failed" (Health.hpp:21) can be read in more than one way; what the code does is:
the first time-out marks with 0, the next `REMOVE_AFTER_NUM_RETRIES` count, and
the one after that evicts. `EvictionAfterSilence` states this.

### Bounds

| Bound | Where | Why it is enough |
|---|---|---|
| 2 peers, 1 worker, 2 slots | `health` | the table is full with one peer, so the search for a free slot fails, and a slot freed by an eviction is contended for by both peers. One worker, since liveness needs the state graph without symmetry: two workers are in `health_members`, `registration` and `membership`, and the safety properties are proved for every number of workers and slots. `NodeNotFound` needs a slot that somebody overwrites: another worker (`health_members`) or a merge (`imq_node`) |
| 2 peers, 2 workers, 3 slots | `health_members` | two workers and a health thread that compete for a slot |
| `REMOVE_AFTER_NUM_RETRIES` 2 in `health`, 1 in `health_members`, 0 in `imq_node` | | with 2, all three branches of the callback are taken, the counting one twice; with 0 the second time-out in a row evicts, so evictions come as early as they can beside a join; the proofs cover every value |
| `MaxOutstanding` 2 in `health`, else 1 | Health | one late reply per peer is enough to unmark at the wrong time; with two, that may happen again |
| `WORD` 3, `TIMEOUT_DURATION` 1 | `rpc_response` | every start value of the clock, so a call in flight at the wrap, before and after its time-out is due |
| `MaxCalls` 2 | `rpc_response` | two calls one after the other or at the same time. Three were run without a violation as far as that run went, beyond the time given to a run |
| the bound in `Tick` | RPCResponse | a loop looks at the clock at least once per wrap (49.7 days) |
| 2 slots for 3 nodes, 1 worker, 1 call of `JoinCluster` | `imq_node` | the table that is full; the leader, another peer and the node itself compete for the slots, so the table is full when the list arrives; the races between workers are the subject of `registration` |
| lists of two entries | `imq_node` | slot 0 is the leader, slot 1 the node or another peer: both lists that a leader with as many slots can send |
| 3 threads, 2 callees | `rpc_store` | the program has two such threads, or three when `Run` is called twice; two callees so that a write for one disturbs a look-up of the other |
| `MaxRuns` 2, 2 workers, 3 requests | `rpc_server` | a second `Run` before and after the first is up; more requests than workers: one for each RPC, and one with a part too many; the args of `GetNodesInCluster` can be parsed or not; without `MetaStore` one is for an RPC that the node does not have |
| 3 slots, 2 workers, 2 requests, 1 round | `registration` | two workers and the health thread write to the same slot at once; two hosts with two ports each, so that every mixture of two nodes is a third; the table holds one peer or none at the start, so that it can be full |
| 3 nodes, 3 slots, 3 joins, 1 fault, 2 workers | `membership` | a join that is repeated beside another node's; a list that is older than a later join; a crash with requests and replies under way, of the leader too. For two faults the safety properties were checked as well, and they are proved for every number |
| `WORD` 16, so `INT_MAX` 7; hosts of one to four symbols | `wire` | ports 0, `INT_MAX` and above it; every pair of the symbols that a conversion treats in its own way, and a colon before, between and after them; ports of two digits |
| 4 nodes, 4 slots | `wire` | three joins in a row: an address that came out of a list goes into one again |
| `MaxEdits` 2, 7 documents, 16 patches | `document` | objects and arrays in each other, empty ones, keys that are escaped, empty, or look like an index, an array of eleven whose pointers are not in the order of its elements; every operation, alone and in pairs, and every way to be malformed. Two edits lead to documents that nobody wrote down |
| `MaxParts` 2, `MaxBytes` 10, `MaxLost` 3 | `archive` | a document alone is as long as it is, with numbers and lengths on both sides of every width up to 64 bits (up to 65536 for texts, 24 for arrays and objects, whose longer lengths come in foreign documents); one that begins in the middle of a vector, or has another behind it, is short. Three lost bytes can cut a length, a number or an element |

Deadlock is not checked: all these systems may stop (the process terminates, a
thread hangs, no calls are left).

### Fairness

`Health`, `RPCResponse` and `RPCServer` assume weak fairness of each thread and of the clock.
`Membership` assumes that a node that runs evicts, in the end, each member that
stays down: this is `EvictedOrAbandoned` of `Health`, without the case of checks
that are abandoned for ever, and nothing is assumed of joins, messages and restarts.
The threads run on the operating system's scheduler and none waits for a lock
that another may hold for ever. Nothing is assumed of the peers or the network, and in
`Health` nothing of which way a call ends: that it ends is `CallReturns` of
`RPCResponse`. A dead peer whose receive threads lose the race with the
destructor every time is never evicted, hence the third disjunct of
`EvictedOrAbandoned`.

## 5. The proofs

What is proved holds for every value of the constants, under the assumptions
that the modules name. Those only say what the constants are: there is a slot; the
numbers of retries, calls, faults are naturals; the node is not its own peer and no thread
is both a worker and the health thread; the time-out is shorter than the wrap of
the clock; a leader's list has the leader in slot 0; threads and callees of
`RPCStore` are finitely many and there is a thread; the requests of the two RPCs
differ (`RequestAssumption`); an address is a host and a port and nothing else
(`HostAndPortAssumption`), and that of a node has a host; every server has a worker,
of finitely many; `MaxOutstanding` is at least 1. Bounds such as `MaxJoins` are any natural number, so a
behaviour of any finite length is covered.

Every safety property of a run that is expected to pass is the subject of a
theorem, except those of `wire`, `document` and `archive`. All are proved in the same way: an inductive
invariant that contains the property or implies it, with a lemma for the initial
states, one per action or kind of action, and a theorem that joins them.

`ClusterProofs` holds lemmas on the table operators. They rest on
`FirstIsLeast`: a non-empty set of slots has a least element, from the
well-foundedness of `<` on the naturals (library theorems `WFMin` and
`NatLessThanWellFounded`).

### HealthProofs

- `TypeCorrect`: `Spec => []TypeOK`. `TypeOK` is inductive; the counter bound in
  it is what the branches of `TimedoutNodeCallback` keep.
- `SelfKnown`: `Spec => []KnowsSelf`. Inductive together with `TypeOK`. Only
  `nodes_[0] = Self` is of interest, but it needs both other parts: a worker
  about to write must not hold slot 0, which `FindSlot` gives since slot 0 is
  never free, and the slot an eviction found held a peer.
- `RetriesAreSilence`: `Spec => []RetriesCountSilence`. Inductive with `TypeOK`;
  only the steps that end a check touch the map or the history.
- `EvictionIsEarned`: `Spec => EvictionAfterSilence`, an action property, from
  `TypeOK`, `RetriesCountSilence` and one more invariant, `EvictingIsDue`: while
  an eviction is under way its target is marked with the highest count.
- `ChecksUseChannels`: `Spec => UsesChannels`, the refinement of one `RPCChannel`
  per peer. It looks at one peer at a time (`ConnectionStep`): a step begins or
  ends the call to that peer, is its answer or its crash, or changes neither its
  counters nor whether it is being called.

### RPCResponseProofs

- `TypeCorrect`, `NothingOutlivesTheResponse` (`LoopWithinResponse`),
  `TimeoutsAreDue` (`NoEarlyTimeout`), `GetHasAnOutcome` (`GetNeverInternal`).
- `BacklogExplained` (`BacklogHasCause`).
- `ClientImplementsChannel`: `Spec => ImplementsChannel`, the refinement of
  `RPCChannel`.

The first group follows from one inductive invariant, `Inv`: the types, `CallInv`
for every caller and `SyncInv` for every synchronous one. `CallInv` is needed
because "timed out implies `elapsed >= TIMEOUT_DURATION`" says nothing of the
clock that `HasTimedOut` reads: it adds that inside the loop `elapsed` *is* the
difference of the two clock readings, plus one `WORD` when the clock has wrapped
(`Since`), that a loop begins only for a response that is not timed out, and
that a caller that is idle has no loop. `SyncInv` adds that nobody clears
`running_` under a synchronous loop, so that the loop ends with a reply or a
time-out. The proof uses that a step of one call leaves the other calls alone
(`Frame`), so each action is looked at for its own call only; `TickInv` is the
step of the clock, with the wrap as a case of its own. `%` enters through three
lemmas (`ModSmall`, `ModNegative`, `ModSelf`).

For the other two, each step of the client is first reduced to what it does to
the channel (`StepOnChannel`): a call begins, reads or gives up, a reply is
delivered or dropped, or the channel does not change. That needs
`LoopWithinCall`, which ties the place in the loop to that of the caller: without
it, the end of a loop would not end an open call. The bound of `BacklogHasCause`
counts open calls, so the invariant carries that they are finitely many, although
the set of callers may be infinite. The refinement then maps each kind of step to
an action of `RPCChannel`.

### RPCStoreProofs

`TypeCorrect`, `NotAllHang` (`SomeThreadLives`), `ConnectionsDoNotPileUp`
(`ConnectionsBounded`), `EntriesStay` (`StoreIsStable`). "Not all threads hang"
is not inductive: what is, is that some thread is not even bound to hang
(`Doomed`: it will let go of a client that is not and cannot get into the
store). A thread misses an entry or loses its write only while another thread
writes a new one, and that thread is not doomed. The bound on connections counts
clients: none is forgotten (`CreatedIsHeld`), a client outside the store is held
by one thread only (`OwnIsAlone`), and a list over callees and threads has no
more clients than callees and threads.

### RPCServerProofs

`TypeCorrect`, `ProcessLives` (`TerminationHasCause`), `ErrorsExplained`
(`ErrorHasCause`), `NoThreadIsLeft` (`NoThreadOutlivesNode`), `StopLasts`
(`StopSticks`), all from one invariant. `MainInv` relates the program's thread
to the server threads: a server thread has the number of a call of `Run`, which
has started the health thread before. `BoundInv` says whose the sockets are and
that only one thread gets past the first bind; with `AloneInv` (as long as no
`Run` overtook the start of a server there is one server) a failed bind has a
cause. `ErrorsExplained` needs `RPCsInv`: no server thread exists before the health
thread, and by then CheckHealth is either among the RPCs or never will be,
according to `MetaStore`; so what an RPC's look-up yields does not depend on when
the request is taken. `FlagInv` is what `StopSticks` needs: a proxy runs wherever `running_` is
set, and once a stop has found it no other thread can get that far.

### RegistrationProofs

`TypeCorrect`, `OwnSlotStays` (`OwnSlotWhole`), `NoTornEntries`
(`WholeUnlessOverlapped`), `RequestsIsolated` (`Isolated`), `MembersOnce`
(`NoMemberTwice`), `ThrowIsDisturbed` (`ThrowHasCause`). A step is either local
to a thread, or an assignment to half of one slot (`Assigns`), which tells every
other thread in the middle of an operation that the slot was disturbed. So each
property rests on what a thread knows of the slots that nobody has disturbed,
which steps of other threads leave true:

- `OwnSlot`: the health thread passes the host of slot 0 only when it looks for
  a node with the host of the node itself; then the port tells them apart.
- `Whole`: two threads in the middle of assignments to one slot have it among the
  mixed ones, and in any other slot the half that a thread has written is still there.
- `Views`: for a worker, that the slots listed so far are as listed, and, if no
  other thread wrote at all, what the scan and the search have established; for
  the health thread, that the rest of its copy and the member it handles are
  in the table, at or after the slot that the scan has reached.
- `Once`: a worker that is going to add a node which it alone serves has passed
  no slot with that node.

### IMQNodeProofs

`IMQTypeCorrect` (`IMQTypeOK`), `SelfStaysUntilMerge` (`SelfUntilMerge`),
`RetriesStaySilence` (`RetriesCountSilence` of `IMQSpec`), `OwnEntryLasts`
(`OwnEntryStays`), `LeaderChannelIsShared` (`SharesLeaderChannel`). `IMQNode`
has the steps of `Health` besides its own, and for those the lemmas of `HealthProofs` are used again. What is added for the types:
the socket is a sequence of replies whose health replies number
`unread[Leader]` (`SocketCounts`, with lemmas on how that number changes when a
reply is appended or read), and a call that has not sent its request leaves room
for it (`Joining`); without the latter the count of requests could exceed its
bound. `SelfInv` adds that the main thread's `AddNode(leader)` never holds slot
0, as long as no list was merged. For `OwnEntryLasts` the same is needed of every
thread that writes: a slot of `own_slots` holds the node itself, no worker and no
eviction has chosen it (`Kept`), and neither has the main thread's `AddNode`
(`OwnInv`). It stays so because a search takes a slot that is free and an
eviction one that holds a peer, and the only step that may overwrite the slot, a
later `MergeEntry`, takes it out of `own_slots` or puts it in anew.

`LeaderChannelIsShared` is a refinement whose channel is put together from the
state of three actors: its requests are the health checks and join requests that
wait at the leader, its replies the socket, its callers the health thread and the
main thread. A step of `Health` is reduced to what it does to the leader's
connection (`ConnectionCases`) and then to a step of the health caller
(`HealthOnLeaderChannel`); `MainOnLeaderChannel`, `JoinRequestOnLeaderChannel` and
`CheckOnLeaderChannel` are the steps of the main thread, of the leader, and of
the check that reads a node list. The invariant is the one of the types, which
says that the socket and the count of `Health` agree. With
`ClientImplementsChannel` this closes the chain from the node to the loop in
`RPCResponse`.

### MembershipProofs

`TypeCorrect`, `SlotNumbersAgree` (`SlotsAgree`), `JoinersAreMembers`
(`JoinedIsMember`). The types need that nothing is in flight for a process that
is down (`Abandoned`) and that requests, workers that will answer and lists for
a joiner never exceed the calls so far (`Counts`): otherwise a worker might
answer more requests than there were.

The other two are about behaviours without the three causes, so the invariant is
`causes = {} => Agreement`. It describes the whole protocol: the leader's table is
filled from slot 0 and never changes an entry (`LeaderOrder`, `Grows`), one
worker at most is about to write, to the slot that comes next (`Writers`), each
list agrees with the leader's table, covers slots 0 and 1 and has the joiner it
is for or is full (`Lists`), and a joiner that has merged no list yet holds
nothing but itself in slot 0 and the leader in slot 1 (`Fresh`), which any list
overwrites. That is why `Bootstrap`, which overwrites slots by index, leaves no
entry of its own behind.

### What is only model-checked

- Liveness under fairness, which is outside the prover's reach:
  `RegistrationAnswered`, `EvictedOrAbandoned`, `CallReturns`, `TakenIsAnswered`,
  `QueuedIsAnswered`, `Forgotten`.
- The properties of `Wire`, `Document` and `Archive`. Their conversions are
  recursive operators over texts, values and bytes, and what those compute for
  every input needs an induction over data.
- The two runs that expect a violation.

## 6. Not modelled

- `Health::Stop`, which nothing calls (it may store `FALSE` before the thread stores
  `TRUE`, and then waits for ever), and messages with fewer parts than the
  code reads, which no client sends.
- `Queue` (nothing uses it; `Pop` returns a reference to the element that it has
  destroyed, Queue.cpp:22), `State` (empty), `Random` (nothing uses it).
- `json.hpp`, a vendored library of 13000 lines: arrays, negative numbers and
  fractions in text (in memory and in binary formats they are modelled),
  callbacks of the parser, `<` on values, iterators as objects, conversions to C++
  containers, streams. A fraction is eight bytes that are compared as they are,
  so NaN and the two zeros are not told apart as the code does. An index beyond
  the end of an array in `operator[]`, which is undefined, occurs only
  where the code has checked it or fills up the array. In text, numbers
  have as many bits as a port needs, and escapes of letters in
  hexadecimal do not occur: the one control character of `Text` is written with
  digits.
- An RPC function that throws: `PerformRPC` is outside every try block
  (RPCServerWorkerPool.cpp:123), but the requests that clients in the repository send have
  all the keys that the functions read.
- The name of the ipc socket, `backend.ipc` in the working directory: two nodes
  in one directory would share it.
- ZeroMQ: reconnection is the environment's `Disconnect`, a request kept for a
  peer that is down stays `pending`. The high-water mark, at which `send` blocks after about
  1000 requests to a peer that is down, is not modelled.
- Steps of the wall clock: the model's clock only advances.
- Undefined behaviour of the unlocked table and store beyond what `Registration`
  and `RPCStore` list: a string read while it is assigned may also be a mixture
  of characters, or the read may crash.
