------------------------------ MODULE RPCServer ------------------------------
(***************************************************************************)
(* Starting and stopping a node: the program's thread (IMQNode's           *)
(* constructor, Run and destructor, Health::Run, RPCServer::Run and Stop), *)
(* the server threads (RPCServer::RunServer), the RPC workers              *)
(* (RPCServerWorkerPool::Work) and the requests that clients send.         *)
(*                                                                         *)
(* zmqpp::proxy never returns, nobody closes a socket or a context, and a  *)
(* receive waits for a message for ever.                                   *)
(***************************************************************************)
EXTENDS Integers, FiniteSets

CONSTANTS
  Worker,       \* the workers of the pool: num_workers_ of them
  MaxRuns,      \* bound: calls of IMQNode::Run
  CheckRequest, \* requests for CheckHealth
  NodesRequest, \* requests for GetNodesInCluster
  EmptyRequest  \* requests with an empty part after the client's address

ASSUME WorkerAssumption == IsFiniteSet(Worker) /\ Worker # {}
ASSUME MaxRunsAssumption == MaxRuns \in Nat

Request == CheckRequest \cup NodesRequest \cup EmptyRequest

RPCName(r) == IF r \in CheckRequest THEN "CheckHealth" ELSE "GetNodesInCluster"

(* What a worker receives: the address that the ROUTER socket puts first,  *)
(* and the parts that the client sent.                                     *)
Parts(r) == IF r \in EmptyRequest THEN 4 ELSE 3

Thread == 1 .. MaxRuns   \* server threads, and health threads, by the call of Run
Null == 0
Wild == -1               \* the value of a pointer that nothing initialised

VARIABLES
  main,            \* where the program's thread is
  runs,            \* calls of Run so far
  running_,        \* RPCServer::running_
  server_thread_,  \* RPCServer::server_thread_
  server,          \* where each server thread is
  health,          \* the health threads started
  bound,           \* the sockets that are bound
  pool_running,    \* RPCServerWorkerPool::running_
  rpcs_,           \* the names in RPCServerWorkerPool::rpcs_
  meta_set,        \* MetaStore holds the address of the node
  worker,          \* per worker: its step and the request it serves
  settled,         \* history: Stop was called with the server up
  overtaken,       \* history: a Run started a server thread before one was up
  refused,         \* the requests with args that json::parse refuses
  request,         \* per request: unsent, queued, at a worker, or how it was answered
  at               \* the worker whose socket the proxy passed the request to

main_vars == <<main, runs, server_thread_, meta_set, overtaken>>
pool_vars == <<pool_running, worker>>
request_vars == <<refused, request, at>>
vars == <<main_vars, running_, server, health, bound, rpcs_, pool_vars, settled, request_vars>>

Terminated == main = "terminated"
NoRequest == "none"
ASSUME RequestAssumption == CheckRequest \cap NodesRequest = {} /\ NoRequest \notin Request

NotStarted == [pc |-> "none", serves |-> NoRequest]

(* The map from names to functions, which a lock guards.                   *)
AddRPC(rpcs, name) == rpcs \cup {name}
GetRPCFinds(rpcs, name) == name \in rpcs

-----------------------------------------------------------------------------
(* IMQNode's constructor.  server_thread_ and the pool's running_ are not  *)
(* initialised, and MetaStore is for the program to set: the constructor   *)
(* does not.  The args of GetNodesInCluster have a host in them, which may *)
(* be no UTF-8; those of CheckHealth are null.                             *)
Init ==
  /\ main = "idle"
  /\ runs = 0
  /\ meta_set \in BOOLEAN
  /\ overtaken = FALSE
  /\ running_ = FALSE
  /\ server_thread_ \in {Null, Wild}
  /\ server = [s \in Thread |-> "none"]
  /\ health = {}
  /\ bound = {}
  /\ pool_running \in BOOLEAN
  /\ rpcs_ = AddRPC({}, "GetNodesInCluster")
  /\ worker = [w \in Worker |-> NotStarted]
  /\ settled = FALSE
  /\ refused \in SUBSET NodesRequest
  /\ request = [r \in Request |-> "unsent"]
  /\ at = [r \in Request |-> NoRequest]

-----------------------------------------------------------------------------
(* The program's thread.                                                   *)

(* Mutant: the health checker does not add its RPC.                        *)
MutHealthRunNoRPC ==
  /\ main = "idle" /\ runs < MaxRuns
  /\ runs' = runs + 1
  /\ health' = health \cup {runs + 1}
  /\ main' = "running"
  /\ UNCHANGED <<rpcs_, running_, server_thread_, meta_set, overtaken, server, bound, pool_vars, settled, request_vars>>

(* IMQNode::Run: Health::Run first, which adds its RPC to the server that  *)
(* the store has for the address in MetaStore, or to a new one ...         *)
HealthRun ==
  /\ main = "idle" /\ runs < MaxRuns
  /\ runs' = runs + 1
  /\ rpcs_' = IF meta_set THEN AddRPC(rpcs_, "CheckHealth") ELSE rpcs_
  /\ health' = health \cup {runs + 1}
  /\ main' = "running"
  /\ UNCHANGED <<running_, server_thread_, meta_set, overtaken, server, bound, pool_vars, settled, request_vars>>

(* A health thread that does not know its own address checks the node      *)
(* itself, and the store has a server under that address, which is cast to *)
(* a client: undefined behaviour that may end the process.                 *)
HealthChecksSelf ==
  /\ ~ Terminated /\ ~ meta_set
  /\ health # {}
  /\ main' = "terminated"
  /\ UNCHANGED <<runs, server_thread_, meta_set, overtaken, running_, server, health, bound, rpcs_, pool_vars, settled, request_vars>>

(* Mutant: the flag is not tested.                                         *)
MutServerRunAlways ==
  /\ main = "running"
  /\ main' = "idle"
  /\ server_thread_' = runs
  /\ server' = [server EXCEPT ![runs] = "bind"]
  /\ overtaken' = (overtaken \/ \E s \in Thread : server[s] \notin {"none", "proxy"})
  /\ UNCHANGED <<runs, meta_set, running_, health, bound, rpcs_, pool_vars, settled, request_vars>>

(* ... then RPCServer::Run, which tests a flag that the thread will set.   *)
ServerRun ==
  /\ main = "running"
  /\ main' = "idle"
  /\ IF running_
       THEN UNCHANGED <<server_thread_, server, overtaken>>
       ELSE /\ server_thread_' = runs
            /\ server' = [server EXCEPT ![runs] = "bind"]
            /\ overtaken' = (overtaken \/ \E s \in Thread : server[s] \notin {"none", "proxy"})
  /\ UNCHANGED <<runs, meta_set, running_, health, bound, rpcs_, pool_vars, settled, request_vars>>

(* ~IMQNode: RPCServer::Stop.                                              *)
Stop ==
  /\ main = "idle"
  /\ running_' = FALSE
  /\ settled' = (\E s \in Thread : server[s] = "proxy")
  /\ main' = IF server_thread_ = Null THEN "gone" ELSE "stopping"
  /\ UNCHANGED <<runs, server_thread_, meta_set, overtaken, server, health, bound, rpcs_, pool_vars, request_vars>>

(* Mutant: the server thread is left alone.                                *)
MutStopPoolNoJoin ==
  /\ main = "stopping"
  /\ pool_running' = FALSE
  /\ main' = "gone"
  /\ UNCHANGED <<runs, running_, server_thread_, meta_set, overtaken, server, health, bound, rpcs_, worker, settled, request_vars>>

(* The pool's Stop, then join() on a thread that does not end, or on a     *)
(* pointer that was never set.                                             *)
StopPool ==
  /\ main = "stopping"
  /\ pool_running' = FALSE
  /\ main' = IF server_thread_ = Wild THEN "terminated" ELSE "joining"
  /\ UNCHANGED <<runs, running_, server_thread_, meta_set, overtaken, server, health, bound, rpcs_, worker, settled, request_vars>>

-----------------------------------------------------------------------------
(* RunServer.                                                              *)

(* Mutant: a socket that is bound can be bound again.                      *)
MutBindAgain(s, from, socket, to) ==
  /\ ~ Terminated /\ server[s] = from
  /\ bound' = bound \cup {socket}
  /\ server' = [server EXCEPT ![s] = to]
  /\ UNCHANGED <<main_vars, running_, health, rpcs_, pool_vars, settled, request_vars>>

(* bind throws when the address is in use, and nothing catches it.         *)
Bind(s, from, socket, to) ==
  /\ ~ Terminated /\ server[s] = from
  /\ IF socket \in bound
       THEN main' = "terminated" /\ UNCHANGED <<bound, server>>
       ELSE /\ bound' = bound \cup {socket}
            /\ server' = [server EXCEPT ![s] = to]
            /\ UNCHANGED main
  /\ UNCHANGED <<runs, running_, server_thread_, meta_set, overtaken, health, rpcs_, pool_vars, settled, request_vars>>

BindFrontend(s) == Bind(s, "bind", "frontend", "bind_ipc")

BindBackend(s) == Bind(s, "bind_ipc", "backend", "start")

(* Mutant: the flag keeps the value that it happened to have.              *)
MutPoolStartNoFlag(s) ==
  /\ ~ Terminated /\ server[s] = "start"
  /\ server' = [server EXCEPT ![s] = "create"]
  /\ UNCHANGED <<main_vars, running_, health, bound, rpcs_, pool_running, worker, settled, request_vars>>

(* The pool's Start: the flag, then a socket and a thread for each worker. *)
PoolStart(s) ==
  /\ ~ Terminated /\ server[s] = "start"
  /\ pool_running' = TRUE
  /\ server' = [server EXCEPT ![s] = "create"]
  /\ UNCHANGED <<main_vars, running_, health, bound, rpcs_, worker, settled, request_vars>>

CreateServerWorker(s, w) ==
  /\ ~ Terminated /\ server[s] = "create" /\ worker[w].pc = "none"
  /\ worker' = [worker EXCEPT ![w].pc = "test"]
  /\ UNCHANGED <<main_vars, running_, server, health, bound, pool_running, rpcs_, settled, request_vars>>

(* running_ is set last, whatever Stop did in between.                     *)
EnterProxy(s) ==
  /\ ~ Terminated /\ server[s] = "create" /\ \A w \in Worker : worker[w].pc # "none"
  /\ running_' = TRUE
  /\ server' = [server EXCEPT ![s] = "proxy"]
  /\ UNCHANGED <<main_vars, health, bound, pool_vars, rpcs_, settled, request_vars>>

(* The backend deals requests out to all the sockets that ever connected.  *)
Pass(r, w) ==
  /\ ~ Terminated /\ request[r] = "queued"
  /\ \E s \in Thread : server[s] = "proxy"
  /\ worker[w].pc # "none"
  /\ request' = [request EXCEPT ![r] = "passed"]
  /\ at' = [at EXCEPT ![r] = w]
  /\ UNCHANGED <<main_vars, running_, server, health, bound, rpcs_, pool_vars, settled, refused>>

-----------------------------------------------------------------------------
(* Work.                                                                   *)

LoopTest(w) ==
  /\ ~ Terminated /\ worker[w].pc = "test"
  /\ worker' = [worker EXCEPT ![w].pc = IF pool_running THEN "receive" ELSE "ended"]
  /\ UNCHANGED <<main_vars, running_, server, health, bound, rpcs_, pool_running, settled, request_vars>>

ReceiveMessage(w) ==
  /\ ~ Terminated /\ worker[w].pc = "receive"
  /\ \E r \in Request :
       /\ request[r] = "passed" /\ at[r] = w
       /\ request' = [request EXCEPT ![r] = "taken"]
       /\ worker' = [worker EXCEPT ![w] = [pc |-> "perform", serves |-> r]]
  /\ UNCHANGED <<main_vars, running_, server, health, bound, rpcs_, pool_running, settled, refused, at>>

(* MessageToParts and the reply.  A message with more than 3 parts is      *)
(* refused before the client's address is read, so the error goes nowhere; *)
(* the comment at RPCServerWorkerPool.cpp:54 describes one with 4.  One    *)
(* with 3 is valid if the RPC is found and its args are parsed.            *)
Valid(r) == GetRPCFinds(rpcs_, RPCName(r)) /\ r \notin refused

Outcome(r) ==
  IF Parts(r) > 3 THEN "misaddressed"
  ELSE IF Valid(r) THEN "served" ELSE "error"

(* Mutants: no reply once the pool is stopped; the parts of the last       *)
(* message are kept.                                                       *)
MutReplyIfRunning(w) ==
  /\ ~ Terminated /\ worker[w].pc = "perform"
  /\ request' = [request EXCEPT ![worker[w].serves] = IF pool_running THEN Outcome(worker[w].serves) ELSE @]
  /\ worker' = [worker EXCEPT ![w] = [pc |-> "test", serves |-> NoRequest]]
  /\ UNCHANGED <<main_vars, running_, server, health, bound, rpcs_, pool_running, settled, refused, at>>

MutReplyKeepsParts(w) ==
  /\ ~ Terminated /\ worker[w].pc = "perform"
  /\ request' = [request EXCEPT ![worker[w].serves] = Outcome(worker[w].serves)]
  /\ worker' = [worker EXCEPT ![w].pc = "test"]
  /\ UNCHANGED <<main_vars, running_, server, health, bound, rpcs_, pool_running, settled, refused, at>>

Reply(w) ==
  /\ ~ Terminated /\ worker[w].pc = "perform"
  /\ request' = [request EXCEPT ![worker[w].serves] = Outcome(worker[w].serves)]
  /\ worker' = [worker EXCEPT ![w] = [pc |-> "test", serves |-> NoRequest]]
  /\ UNCHANGED <<main_vars, running_, server, health, bound, rpcs_, pool_running, settled, refused, at>>

-----------------------------------------------------------------------------
(* The clients.  A request may be sent before the server is bound.         *)
Send(r) ==
  /\ ~ Terminated /\ request[r] = "unsent"
  /\ request' = [request EXCEPT ![r] = "queued"]
  /\ UNCHANGED <<main_vars, running_, server, health, bound, rpcs_, pool_vars, settled, refused, at>>

-----------------------------------------------------------------------------
RunServer(s) ==
  \/ BindFrontend(s) \/ BindBackend(s) \/ PoolStart(s)
  \/ \E w \in Worker : CreateServerWorker(s, w)
  \/ EnterProxy(s)

Work(w) == LoopTest(w) \/ ReceiveMessage(w) \/ Reply(w)

Proxy == \E r \in Request, w \in Worker : Pass(r, w)

Next ==
  \/ HealthRun \/ HealthChecksSelf \/ ServerRun \/ Stop \/ StopPool
  \/ \E s \in Thread : RunServer(s)
  \/ Proxy
  \/ \E w \in Worker : Work(w)
  \/ \E r \in Request : Send(r)

Spec == Init /\ [][Next]_vars

(* Threads that can run do run.  The program is free to call Stop or not.  *)
Fairness ==
  /\ WF_vars(ServerRun) /\ WF_vars(StopPool)
  /\ \A s \in Thread : WF_vars(RunServer(s))
  /\ WF_vars(Proxy)
  /\ \A w \in Worker : WF_vars(Work(w))

FairSpec == Spec /\ Fairness

-----------------------------------------------------------------------------
Answered == {"served", "error", "misaddressed"}

(* Every variable stays in its set, and a worker serves the request that   *)
(* is taken at it.                                                         *)
TypeOK ==
  /\ main \in {"idle", "running", "stopping", "joining", "gone", "terminated"}
  /\ runs \in 0 .. MaxRuns
  /\ running_ \in BOOLEAN
  /\ server_thread_ \in {Null, Wild} \cup Thread
  /\ server \in [Thread -> {"none", "bind", "bind_ipc", "start", "create", "proxy"}]
  /\ health \subseteq Thread
  /\ bound \subseteq {"frontend", "backend"}
  /\ pool_running \in BOOLEAN
  /\ rpcs_ \subseteq {"GetNodesInCluster", "CheckHealth"}
  /\ DOMAIN worker = Worker
  /\ \A w \in Worker :
       /\ worker[w].pc \in {"none", "test", "receive", "perform", "ended"}
       /\ IF worker[w].pc = "perform"
            THEN request[worker[w].serves] = "taken" /\ at[worker[w].serves] = w
            ELSE worker[w].serves = NoRequest
  /\ refused \subseteq NodesRequest
  /\ meta_set \in BOOLEAN /\ settled \in BOOLEAN /\ overtaken \in BOOLEAN
  /\ request \in [Request -> {"unsent", "queued", "passed", "taken"} \cup Answered]
  /\ at \in [Request -> Worker \cup {NoRequest}]

(* Run of a node that is up, and Stop of one that was run, never end the   *)
(* process: what does is a Run that overtakes the start of the server, a   *)
(* Stop before any Run (RPCServer.cpp:70), and a health thread that does   *)
(* not know the node's address (Health.cpp:77).                            *)
TerminationHasCause ==
  Terminated => overtaken \/ server_thread_ = Wild \/ ~ meta_set

(* Whether a client gets a result or {"error": 1} does not depend on when  *)
(* it asks: an error is the answer to args that json::parse refuses and to *)
(* CheckHealth of a node whose program did not give MetaStore its address, *)
(* which adds the RPC to another server (Health.cpp:109), and in these two *)
(* cases it is the answer.  CheckHealth is added before there is a server  *)
(* to ask.                                                                 *)
ErrorHasCause ==
  \A r \in Request :
    request[r] \in {"served", "error"} =>
      (request[r] = "error" <=> r \in refused \/ (r \in CheckRequest /\ ~ meta_set))

(* When the destructor has returned, no thread of the node is left that    *)
(* would use its members.                                                  *)
NoThreadOutlivesNode ==
  main = "gone" =>
    /\ health = {}
    /\ \A s \in Thread : server[s] = "none"
    /\ \A w \in Worker : worker[w].pc = "none"

(* A Stop that finds the server up is not undone.                          *)
StopSticks == settled => ~ running_ /\ (main = "joining" => ~ pool_running)

(* A request that a worker took is answered, also while the server stops;  *)
(* and while the program does not stop the server, every request is.       *)
TakenIsAnswered ==
  \A r \in Request : request[r] = "taken" ~> (request[r] \in Answered \/ Terminated)

QueuedIsAnswered ==
  \A r \in Request :
    (request[r] = "queued" /\ server_thread_ \in Thread)
      ~> (request[r] \in Answered \/ main \notin {"idle", "running"})

=============================================================================
