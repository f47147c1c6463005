--------------------------- MODULE RPCServerProofs ---------------------------
(***************************************************************************)
(* Theorems about RPCServer, for any number of workers, requests and calls *)
(* of Run.                                                                 *)
(***************************************************************************)
EXTENDS RPCServer, TLAPS

-----------------------------------------------------------------------------
(* TypeOK in two halves: the variables one at a time ...                   *)
PlainTypes ==
  /\ main \in {"idle", "running", "stopping", "joining", "gone", "terminated"}
  /\ runs \in 0 .. MaxRuns
  /\ running_ \in BOOLEAN
  /\ server_thread_ \in {Null, Wild} \cup Thread
  /\ server \in [Thread -> {"none", "bind", "bind_ipc", "start", "create", "proxy"}]
  /\ health \subseteq Thread
  /\ bound \subseteq {"frontend", "backend"}
  /\ pool_running \in BOOLEAN
  /\ rpcs_ \subseteq {"GetNodesInCluster", "CheckHealth"}
  /\ refused \subseteq NodesRequest
  /\ meta_set \in BOOLEAN /\ settled \in BOOLEAN /\ overtaken \in BOOLEAN

(* ... and the workers with the requests, where it says less than a step   *)
(* of a worker needs: that the fields of a worker are those two, and that  *)
(* what a worker serves is a request.                                      *)
WorkerState == [pc : {"none", "test", "receive", "perform", "ended"},
                serves : Request \cup {NoRequest}]

Serving ==
  \A w \in Worker :
    IF worker[w].pc = "perform"
      THEN /\ worker[w].serves \in Request
           /\ request[worker[w].serves] = "taken" /\ at[worker[w].serves] = w
      ELSE worker[w].serves = NoRequest

RequestsOK ==
  /\ request \in [Request -> {"unsent", "queued", "passed", "taken"} \cup Answered]
  /\ at \in [Request -> Worker \cup {NoRequest}]

WorkerTypes == worker \in [Worker -> WorkerState] /\ Serving /\ RequestsOK

(* The program's thread against the server threads.  A server thread that  *)
(* exists is the doing of a call of Run, whose number it has, and Run has  *)
(* started the health thread first.                                        *)
MainInv ==
  /\ main = "running" => runs \in Thread
  /\ \A s \in Thread :
       /\ server[s] # "none" => s <= runs /\ server_thread_ \in Thread /\ health # {}
       /\ main = "running" /\ s = runs => server[s] = "none"
  /\ main = "running" => health # {}
  /\ main \notin {"running", "terminated"} /\ server_thread_ \notin Thread => health = {}
  /\ main = "gone" => server_thread_ = Null
  /\ main = "stopping" => server_thread_ # Null

(* running_ is for the program to see until it calls Stop.                 *)
FlagInv ==
  /\ running_ => \E s \in Thread : server[s] = "proxy"
  /\ main \in {"idle", "running"} /\ (\E s \in Thread : server[s] = "proxy") => running_
  /\ settled => /\ main \notin {"idle", "running"}
                /\ ~ running_
                /\ \E s \in Thread : server[s] = "proxy"
                /\ main = "joining" => ~ pool_running

(* A bound socket belongs to a server thread, and only one thread gets     *)
(* past the first of the two.                                              *)
Past(s) == server[s] \notin {"none", "bind"}

BoundInv ==
  /\ \A s, u \in Thread : Past(s) /\ Past(u) => s = u
  /\ "frontend" \in bound <=> \E s \in Thread : Past(s)
  /\ "backend" \in bound => \E s \in Thread : server[s] \in {"start", "create", "proxy"}
  /\ (\E w \in Worker : worker[w].pc # "none") => \E s \in Thread : server[s] \in {"create", "proxy"}

(* As long as no Run overtakes the start of a server, there is one server. *)
AloneInv ==
  ~ overtaken =>
    \A s, u \in Thread : server[s] # "none" /\ server[u] # "none" => s = u

(* The node's own server has the first RPC from the start, and the other   *)
(* one once the node runs, unless MetaStore was not set.                   *)
RPCsInv ==
  /\ "GetNodesInCluster" \in rpcs_
  /\ meta_set /\ health # {} => "CheckHealth" \in rpcs_
  /\ ~ meta_set => "CheckHealth" \notin rpcs_

NodeInv == MainInv /\ FlagInv /\ BoundInv /\ AloneInv /\ RPCsInv /\ TerminationHasCause

Inv == PlainTypes /\ WorkerTypes /\ NodeInv /\ ErrorHasCause

-----------------------------------------------------------------------------
LEMMA TypesTogether == PlainTypes /\ WorkerTypes => TypeOK
<1> SUFFICES ASSUME PlainTypes, WorkerTypes PROVE TypeOK
  OBVIOUS
<1>1. /\ DOMAIN worker = Worker
      /\ \A w \in Worker : worker[w].pc \in {"none", "test", "receive", "perform", "ended"}
  BY DEF WorkerTypes, WorkerState
<1> QED
  BY <1>1 DEF PlainTypes, WorkerTypes, Serving, RequestsOK, TypeOK

LEMMA InvInit == Init => Inv
<1> SUFFICES ASSUME Init PROVE Inv
  OBVIOUS
<1> USE DEF Init, NotStarted
<1>1. WorkerTypes
  BY DEF WorkerTypes, WorkerState, Serving, RequestsOK
<1>2. Null \notin Thread /\ Wild \notin Thread
  BY DEF Thread, Null, Wild
<1>3. PlainTypes
  <2>1. runs \in 0 .. MaxRuns
    BY MaxRunsAssumption
  <2> QED
    BY <2>1 DEF PlainTypes, AddRPC
<1>4. NodeInv
  BY <1>2 DEF NodeInv, MainInv, FlagInv, BoundInv, Past, AloneInv, RPCsInv, AddRPC, Terminated,
              TerminationHasCause
<1>5. ErrorHasCause
  BY DEF ErrorHasCause
<1> QED
  BY <1>1, <1>3, <1>4, <1>5 DEF Inv

(* A request that is taken at a worker is served by that worker, so no     *)
(* step of another changes what it is to the worker that serves it.        *)
LEMMA TypeWork ==
  ASSUME WorkerTypes, NEW w \in Worker, Work(w)
  PROVE  WorkerTypes'
<1> USE DEF WorkerTypes
<1>1. CASE LoopTest(w)
  <2>1. PICK pc \in {"receive", "ended"} : worker' = [worker EXCEPT ![w].pc = pc]
    <3>1. CASE pool_running
      BY <1>1, <3>1 DEF LoopTest
    <3>2. CASE ~ pool_running
      BY <1>1, <3>2 DEF LoopTest
    <3> QED
      BY <3>1, <3>2
  <2>2. worker[w].pc = "test" /\ UNCHANGED <<request, at>>
    BY <1>1 DEF LoopTest, request_vars
  <2>3. worker' \in [Worker -> WorkerState]
    BY <2>1 DEF WorkerState
  <2>4. Serving'
    BY <2>1, <2>2 DEF Serving, WorkerState
  <2> QED
    BY <2>2, <2>3, <2>4 DEF RequestsOK
<1>2. CASE ReceiveMessage(w)
  <2>1. PICK r \in Request :
          /\ request[r] = "passed" /\ at[r] = w
          /\ request' = [request EXCEPT ![r] = "taken"]
          /\ worker' = [worker EXCEPT ![w] = [pc |-> "perform", serves |-> r]]
    BY <1>2 DEF ReceiveMessage
  <2>2. at' = at
    BY <1>2 DEF ReceiveMessage
  <2>3. worker' \in [Worker -> WorkerState]
    BY <2>1 DEF WorkerState
  <2>4. RequestsOK'
    BY <2>1, <2>2 DEF RequestsOK
  <2>5. Serving'
    <3> SUFFICES ASSUME NEW v \in Worker
                 PROVE  IF worker'[v].pc = "perform"
                          THEN /\ worker'[v].serves \in Request
                               /\ request'[worker'[v].serves] = "taken" /\ at[worker'[v].serves] = v
                          ELSE worker'[v].serves = NoRequest
      BY <2>2 DEF Serving
    <3>1. CASE v = w
      BY <3>1, <2>1 DEF RequestsOK
    <3>2. CASE v # w
      BY <3>2, <2>1 DEF RequestsOK, Serving
    <3> QED
      BY <3>1, <3>2
  <2> QED
    BY <2>3, <2>4, <2>5
<1>3. CASE Reply(w)
  <2>1. PICK r \in Request :
          /\ worker[w].pc = "perform" /\ r = worker[w].serves /\ at[r] = w
          /\ request' = [request EXCEPT ![r] = Outcome(r)]
          /\ worker' = [worker EXCEPT ![w] = [pc |-> "test", serves |-> NoRequest]]
    BY <1>3 DEF Reply, Serving
  <2>2. at' = at
    BY <1>3 DEF Reply
  <2>3. Outcome(r) \in Answered
    BY DEF Outcome, Answered
  <2>4. worker' \in [Worker -> WorkerState]
    BY <2>1 DEF WorkerState
  <2>5. RequestsOK'
    BY <2>1, <2>2, <2>3 DEF RequestsOK
  <2>6. Serving'
    <3> SUFFICES ASSUME NEW v \in Worker
                 PROVE  IF worker'[v].pc = "perform"
                          THEN /\ worker'[v].serves \in Request
                               /\ request'[worker'[v].serves] = "taken" /\ at[worker'[v].serves] = v
                          ELSE worker'[v].serves = NoRequest
      BY <2>2 DEF Serving
    <3>1. CASE v = w
      BY <3>1, <2>1
    <3>2. CASE v # w
      BY <3>2, <2>1 DEF RequestsOK, Serving
    <3> QED
      BY <3>1, <3>2
  <2> QED
    BY <2>4, <2>5, <2>6
<1> QED
  BY <1>1, <1>2, <1>3 DEF Work

LEMMA PlainStep ==
  ASSUME PlainTypes, MainInv, [Next]_vars
  PROVE  PlainTypes'
<1> USE DEF PlainTypes, main_vars, pool_vars, request_vars
<1>1. CASE HealthRun
  <2>1. runs' \in 0 .. MaxRuns /\ runs' \in Thread
    BY <1>1, MaxRunsAssumption DEF HealthRun, Thread
  <2>2. health' \subseteq Thread /\ rpcs_' \subseteq {"GetNodesInCluster", "CheckHealth"}
    BY <1>1, <2>1 DEF HealthRun, AddRPC
  <2> QED
    BY <1>1, <2>1, <2>2 DEF HealthRun
<1>2. CASE HealthChecksSelf \/ Stop \/ StopPool
  BY <1>2 DEF HealthChecksSelf, Stop, StopPool
<1>3. CASE ServerRun
  <2>1. runs \in Thread
    BY <1>3 DEF ServerRun, MainInv
  <2>2. CASE running_
    BY <1>3, <2>2 DEF ServerRun
  <2>3. CASE ~ running_
    BY <1>3, <2>1, <2>3 DEF ServerRun
  <2> QED
    BY <2>2, <2>3
<1>4. ASSUME NEW s \in Thread, BindFrontend(s) \/ BindBackend(s) PROVE PlainTypes'
  BY <1>4 DEF BindFrontend, BindBackend, Bind
<1>5. ASSUME NEW s \in Thread, PoolStart(s) PROVE PlainTypes'
  BY <1>5 DEF PoolStart
<1>6. ASSUME NEW s \in Thread, EnterProxy(s) PROVE PlainTypes'
  BY <1>6 DEF EnterProxy
<1>7. ASSUME NEW s \in Thread, NEW w \in Worker, CreateServerWorker(s, w) PROVE PlainTypes'
  BY <1>7 DEF CreateServerWorker
<1>8. CASE Proxy
  BY <1>8 DEF Proxy, Pass
<1>9. ASSUME NEW w \in Worker, Work(w) PROVE PlainTypes'
  BY <1>9 DEF Work, LoopTest, ReceiveMessage, Reply
<1>10. ASSUME NEW r \in Request, Send(r) PROVE PlainTypes'
  BY <1>10 DEF Send
<1>11. CASE UNCHANGED vars
  BY <1>11 DEF vars
<1> QED
  BY <1>1, <1>2, <1>3, <1>4, <1>5, <1>6, <1>7, <1>8, <1>9, <1>10, <1>11 DEF Next, RunServer

LEMMA WorkerStep ==
  ASSUME WorkerTypes, [Next]_vars
  PROVE  WorkerTypes'
<1> USE DEF main_vars, pool_vars, request_vars
<1>1. ASSUME UNCHANGED <<worker, request_vars>> PROVE WorkerTypes'
  BY <1>1 DEF WorkerTypes, Serving, RequestsOK
<1>2. ASSUME NEW s \in Thread, NEW w \in Worker, CreateServerWorker(s, w) PROVE WorkerTypes'
  <2>1. /\ worker[w].pc = "none" /\ UNCHANGED <<request, at>>
        /\ worker' = [worker EXCEPT ![w].pc = "test"]
    BY <1>2 DEF CreateServerWorker
  <2>2. worker' \in [Worker -> WorkerState]
    BY <2>1 DEF WorkerTypes, WorkerState
  <2>3. Serving' /\ RequestsOK'
    BY <2>1 DEF WorkerTypes, Serving, RequestsOK, WorkerState
  <2> QED
    BY <2>2, <2>3 DEF WorkerTypes
<1>3. ASSUME NEW r \in Request, NEW w \in Worker, Pass(r, w) PROVE WorkerTypes'
  <2>1. /\ request[r] = "queued" /\ worker' = worker
        /\ request' = [request EXCEPT ![r] = "passed"]
        /\ at' = [at EXCEPT ![r] = w]
    BY <1>3 DEF Pass
  <2> QED
    BY <2>1 DEF WorkerTypes, Serving, RequestsOK
<1>4. ASSUME NEW r \in Request, Send(r) PROVE WorkerTypes'
  <2>1. /\ request[r] = "unsent" /\ UNCHANGED <<worker, at>>
        /\ request' = [request EXCEPT ![r] = "queued"]
    BY <1>4 DEF Send
  <2> QED
    BY <2>1 DEF WorkerTypes, Serving, RequestsOK
<1>5. ASSUME NEW w \in Worker, Work(w) PROVE WorkerTypes'
  BY <1>5, TypeWork
<1>6. CASE HealthRun \/ HealthChecksSelf \/ ServerRun \/ Stop \/ StopPool
  BY <1>1, <1>6 DEF HealthRun, HealthChecksSelf, ServerRun, Stop, StopPool
<1>7. ASSUME NEW s \in Thread, BindFrontend(s) \/ BindBackend(s) \/ PoolStart(s) \/ EnterProxy(s)
      PROVE  WorkerTypes'
  BY <1>1, <1>7 DEF BindFrontend, BindBackend, Bind, PoolStart, EnterProxy
<1>8. CASE UNCHANGED vars
  BY <1>1, <1>8 DEF vars
<1> QED
  BY <1>2, <1>3, <1>4, <1>5, <1>6, <1>7, <1>8 DEF Next, RunServer, Proxy

(* Which steps touch what the node's invariant is about.                   *)
LEMMA WorkerThreadsStay ==
  ASSUME WorkerTypes, NEW w \in Worker, Work(w)
  PROVE  \A v \in Worker : worker'[v].pc # "none" => worker[v].pc # "none"
  BY DEF WorkerTypes, Work, LoopTest, ReceiveMessage, Reply

NodeState == <<main_vars, running_, server, health, bound, rpcs_, pool_running, settled>>

LEMMA NodeUnchanged ==
  ASSUME NodeInv, UNCHANGED NodeState,
         \A v \in Worker : worker'[v].pc # "none" => worker[v].pc # "none"
  PROVE  NodeInv'
<1> USE DEF NodeState, main_vars, NodeInv
<1>1. MainInv' /\ FlagInv' /\ AloneInv' /\ RPCsInv' /\ TerminationHasCause'
  BY DEF MainInv, FlagInv, AloneInv, RPCsInv, TerminationHasCause, Terminated
<1>2. BoundInv'
  BY DEF BoundInv, Past
<1> QED
  BY <1>1, <1>2

LEMMA NodeMain ==
  ASSUME PlainTypes, NodeInv, HealthRun \/ HealthChecksSelf \/ ServerRun \/ Stop \/ StopPool
  PROVE  NodeInv'
<1> USE DEF main_vars, pool_vars, request_vars, NodeInv, PlainTypes
<1>1. CASE HealthRun
  <2> USE <1>1 DEF HealthRun
  <2>1. runs' \in Thread /\ health' # {}
    BY MaxRunsAssumption DEF Thread
  <2>2. MainInv'
    BY <2>1 DEF MainInv, Thread
  <2>3. FlagInv' /\ AloneInv' /\ TerminationHasCause'
    BY DEF FlagInv, AloneInv, TerminationHasCause, Terminated
  <2>4. BoundInv'
    BY DEF BoundInv, Past
  <2>5. RPCsInv'
    BY DEF RPCsInv, AddRPC
  <2> QED
    BY <2>2, <2>3, <2>4, <2>5
<1>2. CASE HealthChecksSelf
  <2> USE <1>2 DEF HealthChecksSelf
  <2>1. MainInv' /\ TerminationHasCause'
    BY DEF MainInv, TerminationHasCause, Terminated
  <2>2. FlagInv'
    BY DEF FlagInv
  <2>3. BoundInv' /\ AloneInv' /\ RPCsInv'
    BY DEF BoundInv, Past, AloneInv, RPCsInv
  <2> QED
    BY <2>1, <2>2, <2>3
<1>3. CASE ServerRun /\ running_
  <2> USE <1>3 DEF ServerRun
  <2>1. MainInv'
    BY DEF MainInv, FlagInv
  <2>2. FlagInv' /\ AloneInv' /\ RPCsInv' /\ TerminationHasCause'
    BY DEF FlagInv, AloneInv, RPCsInv, TerminationHasCause, Terminated
  <2>3. BoundInv'
    BY DEF BoundInv, Past
  <2> QED
    BY <2>1, <2>2, <2>3
<1>4. CASE ServerRun /\ ~ running_
  <2>1. /\ main = "running" /\ main' = "idle"
        /\ server_thread_' = runs
        /\ server' = [server EXCEPT ![runs] = "bind"]
        /\ overtaken' = (overtaken \/ \E s \in Thread : server[s] \notin {"none", "proxy"})
        /\ UNCHANGED <<runs, meta_set, running_, health, bound, rpcs_, worker, pool_running, settled>>
    BY <1>4 DEF ServerRun
  <2>2. runs \in Thread /\ server[runs] = "none" /\ health # {}
    BY <2>1 DEF MainInv
  <2>3. \A s \in Thread : server'[s] = IF s = runs THEN "bind" ELSE server[s]
    BY <2>1, <2>2
  <2>4. \A s \in Thread : server[s] # "proxy"
    BY <1>4, <2>1 DEF FlagInv
  <2>5. MainInv'
    BY <2>1, <2>2, <2>3 DEF MainInv, Thread
  <2>6. FlagInv'
    BY <1>4, <2>1, <2>3, <2>4 DEF FlagInv
  <2>7. BoundInv'
    BY <2>1, <2>2, <2>3 DEF BoundInv, Past
  <2>8. AloneInv'
    BY <2>1, <2>3, <2>4 DEF AloneInv
  <2>9. RPCsInv' /\ TerminationHasCause'
    BY <2>1 DEF RPCsInv, TerminationHasCause, Terminated
  <2> QED
    BY <2>5, <2>6, <2>7, <2>8, <2>9
<1>5. CASE Stop
  <2> USE <1>5 DEF Stop
  <2>1. MainInv'
    BY DEF MainInv
  <2>2. FlagInv'
    BY DEF FlagInv
  <2>3. BoundInv' /\ AloneInv' /\ RPCsInv' /\ TerminationHasCause'
    BY DEF BoundInv, Past, AloneInv, RPCsInv, TerminationHasCause, Terminated
  <2> QED
    BY <2>1, <2>2, <2>3
<1>6. CASE StopPool
  <2> USE <1>6 DEF StopPool
  <2>1. MainInv'
    BY DEF MainInv
  <2>2. FlagInv'
    BY DEF FlagInv
  <2>3. BoundInv' /\ AloneInv' /\ RPCsInv'
    BY DEF BoundInv, Past, AloneInv, RPCsInv
  <2>4. TerminationHasCause'
    BY DEF TerminationHasCause, Terminated
  <2> QED
    BY <2>1, <2>2, <2>3, <2>4
<1> QED
  BY <1>1, <1>2, <1>3, <1>4, <1>5, <1>6

LEMMA NodeServer ==
  ASSUME PlainTypes, WorkerTypes, NodeInv, NEW s \in Thread, RunServer(s)
  PROVE  NodeInv'
<1> USE DEF main_vars, pool_vars, request_vars, NodeInv, PlainTypes
<1>1. ASSUME NEW from, NEW socket, NEW to, Bind(s, from, socket, to), socket \in bound,
             overtaken
      PROVE  NodeInv'
  <2> USE <1>1 DEF Bind
  <2>1. MainInv' /\ TerminationHasCause'
    BY DEF MainInv, TerminationHasCause, Terminated
  <2>2. FlagInv'
    BY DEF FlagInv
  <2>3. BoundInv' /\ AloneInv' /\ RPCsInv'
    BY DEF BoundInv, Past, AloneInv, RPCsInv
  <2> QED
    BY <2>1, <2>2, <2>3
<1>2. ASSUME NEW to \in {"bind", "bind_ipc", "start", "create"}, server[s] \notin {"none", "proxy"},
             server' = [server EXCEPT ![s] = to],
             UNCHANGED <<main_vars, running_, health, rpcs_, settled>>,
             pool_running' = pool_running \/ ~ settled
      PROVE  MainInv' /\ FlagInv' /\ AloneInv' /\ RPCsInv' /\ TerminationHasCause'
  <2>1. \A u \in Thread : server'[u] = IF u = s THEN to ELSE server[u]
    BY <1>2
  <2>2. \A u \in Thread : server'[u] = "proxy" <=> server[u] = "proxy"
    BY <1>2, <2>1
  <2>3. \A u \in Thread : server'[u] = "none" <=> server[u] = "none"
    BY <1>2, <2>1
  <2>4. MainInv'
    BY <1>2, <2>3 DEF MainInv
  <2>5. FlagInv'
    BY <1>2, <2>2 DEF FlagInv
  <2>6. AloneInv' /\ RPCsInv' /\ TerminationHasCause'
    BY <1>2, <2>3 DEF AloneInv, RPCsInv, TerminationHasCause, Terminated
  <2> QED
    BY <2>4, <2>5, <2>6
<1>3. CASE BindFrontend(s) /\ "frontend" \in bound
  <2>1. PICK u \in Thread : Past(u)
    BY <1>3 DEF BoundInv
  <2>2. overtaken
    BY <1>3, <2>1 DEF BindFrontend, Bind, Past, AloneInv
  <2> QED
    BY <1>1, <1>3, <2>2 DEF BindFrontend
<1>4. CASE BindFrontend(s) /\ "frontend" \notin bound
  <2>1. /\ server[s] = "bind" /\ server' = [server EXCEPT ![s] = "bind_ipc"]
        /\ bound' = bound \cup {"frontend"}
        /\ UNCHANGED <<main_vars, running_, health, rpcs_, settled, pool_running, worker>>
    BY <1>4 DEF BindFrontend, Bind
  <2>2. \A u \in Thread : ~ Past(u)
    BY <1>4 DEF BoundInv
  <2>3. BoundInv'
    BY <2>1, <2>2 DEF BoundInv, Past
  <2> QED
    BY <1>2, <2>1, <2>3
<1>5. CASE BindBackend(s) /\ "backend" \in bound
  <2>1. PICK u \in Thread : server[u] \in {"start", "create", "proxy"}
    BY <1>5 DEF BoundInv
  <2>2. FALSE
    BY <1>5, <2>1 DEF BindBackend, Bind, BoundInv, Past
  <2> QED
    BY <2>2
<1>6. CASE BindBackend(s) /\ "backend" \notin bound
  <2>1. /\ server[s] = "bind_ipc" /\ server' = [server EXCEPT ![s] = "start"]
        /\ bound' = bound \cup {"backend"}
        /\ UNCHANGED <<main_vars, running_, health, rpcs_, settled, pool_running, worker>>
    BY <1>6 DEF BindBackend, Bind
  <2>2. BoundInv'
    BY <2>1 DEF BoundInv, Past
  <2> QED
    BY <1>2, <2>1, <2>2
<1>7. CASE PoolStart(s)
  <2>1. /\ server[s] = "start" /\ server' = [server EXCEPT ![s] = "create"]
        /\ pool_running'
        /\ UNCHANGED <<main_vars, running_, health, bound, rpcs_, settled, worker>>
    BY <1>7 DEF PoolStart
  <2>2. ~ settled
    BY <2>1 DEF FlagInv, BoundInv, Past
  <2>3. BoundInv'
    BY <2>1 DEF BoundInv, Past
  <2> QED
    BY <1>2, <1>7, <2>1, <2>2, <2>3 DEF PoolStart
<1>8. ASSUME NEW w \in Worker, CreateServerWorker(s, w) PROVE NodeInv'
  <2>1. server[s] = "create"
        /\ UNCHANGED <<main_vars, running_, server, health, bound, rpcs_, settled, pool_running>>
    BY <1>8 DEF CreateServerWorker
  <2>2. MainInv' /\ FlagInv' /\ AloneInv' /\ RPCsInv' /\ TerminationHasCause'
    BY <2>1 DEF MainInv, FlagInv, AloneInv, RPCsInv, TerminationHasCause, Terminated
  <2>3. BoundInv'
    BY <2>1 DEF BoundInv, Past
  <2> QED
    BY <2>2, <2>3
<1>9. CASE EnterProxy(s)
  <2>1. /\ server[s] = "create" /\ running_'
        /\ \A u \in Thread : server'[u] = IF u = s THEN "proxy" ELSE server[u]
        /\ UNCHANGED <<main_vars, health, bound, rpcs_, settled, pool_running, worker>>
    BY <1>9 DEF EnterProxy
  <2>2. ~ settled
    BY <2>1 DEF FlagInv, BoundInv, Past
  <2>3. FlagInv'
    BY <2>1, <2>2 DEF FlagInv
  <2>4. MainInv' /\ AloneInv' /\ RPCsInv' /\ TerminationHasCause'
    BY <2>1 DEF MainInv, AloneInv, RPCsInv, TerminationHasCause, Terminated
  <2>5. BoundInv'
    BY <2>1 DEF BoundInv, Past
  <2> QED
    BY <2>3, <2>4, <2>5
<1> QED
  BY <1>3, <1>4, <1>5, <1>6, <1>7, <1>8, <1>9 DEF RunServer

LEMMA NodeStep ==
  ASSUME PlainTypes, WorkerTypes, NodeInv, [Next]_vars
  PROVE  NodeInv'
<1> USE DEF main_vars, pool_vars, request_vars
<1>1. CASE HealthRun \/ HealthChecksSelf \/ ServerRun \/ Stop \/ StopPool
  BY <1>1, NodeMain
<1>2. ASSUME NEW s \in Thread, RunServer(s) PROVE NodeInv'
  BY <1>2, NodeServer
<1>3. CASE Proxy
  BY <1>3, NodeUnchanged DEF Proxy, Pass, NodeState
<1>4. ASSUME NEW w \in Worker, Work(w) PROVE NodeInv'
  <2>1. UNCHANGED NodeState
    BY <1>4 DEF Work, LoopTest, ReceiveMessage, Reply, NodeState
  <2> QED
    BY <1>4, <2>1, NodeUnchanged, WorkerThreadsStay
<1>5. ASSUME NEW r \in Request, Send(r) PROVE NodeInv'
  BY <1>5, NodeUnchanged DEF Send, NodeState
<1>6. CASE UNCHANGED vars
  BY <1>6, NodeUnchanged DEF vars, NodeState
<1> QED
  BY <1>1, <1>2, <1>3, <1>4, <1>5, <1>6 DEF Next

(* What a worker answers depends on the RPCs that the node has, and the    *)
(* worker is of a node that has added them all.                            *)
LEMMA OutcomeExplained ==
  ASSUME PlainTypes, WorkerTypes, NodeInv, NEW w \in Worker, worker[w].pc = "perform",
         NEW r \in Request, Outcome(r) \in {"served", "error"}
  PROVE  Outcome(r) = "error" <=> r \in refused \/ (r \in CheckRequest /\ ~ meta_set)
<1>1. Outcome(r) = "error" <=> ~ GetRPCFinds(rpcs_, RPCName(r)) \/ r \in refused
  BY DEF Outcome, Valid
<1>2. r \notin CheckRequest => GetRPCFinds(rpcs_, RPCName(r))
  BY DEF GetRPCFinds, RPCName, NodeInv, RPCsInv
<1>3. r \in CheckRequest => (GetRPCFinds(rpcs_, RPCName(r)) <=> meta_set)
  <2>1. PICK s \in Thread : server[s] \in {"create", "proxy"}
    BY DEF NodeInv, BoundInv
  <2>2. health # {}
    BY <2>1 DEF NodeInv, MainInv
  <2> QED
    BY <2>2 DEF GetRPCFinds, RPCName, NodeInv, RPCsInv
<1> QED
  BY <1>1, <1>2, <1>3

LEMMA ErrorStep ==
  ASSUME PlainTypes, WorkerTypes, NodeInv, ErrorHasCause, [Next]_vars
  PROVE  ErrorHasCause'
<1> USE DEF main_vars, pool_vars, request_vars, WorkerTypes, RequestsOK
<1>1. ASSUME UNCHANGED <<refused, request, meta_set>> PROVE ErrorHasCause'
  BY <1>1 DEF ErrorHasCause
<1>2. ASSUME NEW r \in Request, NEW state \in {"queued", "passed", "taken"},
             request' = [request EXCEPT ![r] = state], UNCHANGED <<refused, meta_set>>
      PROVE  ErrorHasCause'
  BY <1>2 DEF ErrorHasCause
<1>3. ASSUME NEW w \in Worker, Reply(w) PROVE ErrorHasCause'
  <2>1. PICK r \in Request :
          /\ worker[w].pc = "perform"
          /\ request' = [request EXCEPT ![r] = Outcome(r)]
          /\ UNCHANGED <<refused, meta_set>>
    BY <1>3 DEF Reply, Serving
  <2>2. Outcome(r) \in {"served", "error"} =>
          (Outcome(r) = "error" <=> r \in refused \/ (r \in CheckRequest /\ ~ meta_set))
    BY <2>1, OutcomeExplained
  <2>3. \A q \in Request : request'[q] = IF q = r THEN Outcome(r) ELSE request[q]
    BY <2>1
  <2> QED
    BY <2>1, <2>2, <2>3 DEF ErrorHasCause
<1>4. CASE HealthRun \/ HealthChecksSelf \/ ServerRun \/ Stop \/ StopPool
  BY <1>1, <1>4 DEF HealthRun, HealthChecksSelf, ServerRun, Stop, StopPool
<1>5. ASSUME NEW s \in Thread, RunServer(s) PROVE ErrorHasCause'
  BY <1>1, <1>5 DEF RunServer, BindFrontend, BindBackend, Bind, PoolStart, CreateServerWorker, EnterProxy
<1>6. ASSUME NEW r \in Request, NEW w \in Worker, Pass(r, w) PROVE ErrorHasCause'
  BY <1>2, <1>6 DEF Pass
<1>7. ASSUME NEW w \in Worker, LoopTest(w) PROVE ErrorHasCause'
  BY <1>1, <1>7 DEF LoopTest
<1>8. ASSUME NEW w \in Worker, ReceiveMessage(w) PROVE ErrorHasCause'
  BY <1>2, <1>8 DEF ReceiveMessage
<1>9. ASSUME NEW r \in Request, Send(r) PROVE ErrorHasCause'
  BY <1>2, <1>9 DEF Send
<1>10. CASE UNCHANGED vars
  BY <1>1, <1>10 DEF vars
<1> QED
  BY <1>3, <1>4, <1>5, <1>6, <1>7, <1>8, <1>9, <1>10 DEF Next, Proxy, Work

LEMMA InvSpec == Spec => []Inv
<1>1. Inv /\ [Next]_vars => Inv'
  BY PlainStep, WorkerStep, NodeStep, ErrorStep DEF Inv, NodeInv
<1> QED
  BY <1>1, InvInit, PTL DEF Spec

-----------------------------------------------------------------------------
(* Every variable keeps its type, and a worker serves a request that is    *)
(* taken at it.                                                            *)
THEOREM TypeCorrect == Spec => []TypeOK
<1>1. Inv => TypeOK
  BY TypesTogether DEF Inv
<1> QED
  BY <1>1, InvSpec, PTL

(* Run of a node that is up, and Stop of one that was run, never end the   *)
(* process: a bind fails only if a Run overtook the start of a server.     *)
THEOREM ProcessLives == Spec => []TerminationHasCause
<1>1. Inv => TerminationHasCause
  BY DEF Inv, NodeInv
<1> QED
  BY <1>1, InvSpec, PTL

(* Whatever the order of the clients, workers and calls of Run, a request  *)
(* is answered by {"error": 1} exactly if its args are refused by parse or *)
(* it asks CheckHealth of a node that did not add it to its own server     *)
(* (RPCServerWorkerPool.cpp:66-84, 122-129; Health.cpp:105-110).           *)
THEOREM ErrorsExplained == Spec => []ErrorHasCause
<1>1. Inv => ErrorHasCause
  BY DEF Inv
<1> QED
  BY <1>1, InvSpec, PTL

(* The destructor returns only if the node was never run: no thread of it  *)
(* is left then.                                                           *)
THEOREM NoThreadIsLeft == Spec => []NoThreadOutlivesNode
<1>1. Inv => NoThreadOutlivesNode
  <2> SUFFICES ASSUME Inv, main = "gone" PROVE NoThreadOutlivesNode
    BY DEF NoThreadOutlivesNode
  <2>1. server_thread_ \notin Thread
    BY DEF Inv, NodeInv, MainInv, Thread, Null
  <2>2. health = {} /\ \A s \in Thread : server[s] = "none"
    BY <2>1 DEF Inv, NodeInv, MainInv
  <2>3. \A w \in Worker : worker[w].pc = "none"
    BY <2>2 DEF Inv, NodeInv, BoundInv
  <2> QED
    BY <2>2, <2>3 DEF NoThreadOutlivesNode
<1> QED
  BY <1>1, InvSpec, PTL

(* A server thread that is still starting could undo a Stop, but once one  *)
(* is up no other starts.                                                  *)
THEOREM StopLasts == Spec => []StopSticks
<1>1. Inv => StopSticks
  BY DEF Inv, NodeInv, FlagInv, StopSticks
<1> QED
  BY <1>1, InvSpec, PTL

=============================================================================
