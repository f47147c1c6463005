------------------------------- MODULE IMQNode -------------------------------
(***************************************************************************)
(* A node that joins a cluster through a leader: the main thread, in       *)
(* IMQNode::JoinCluster and Cluster::Bootstrap, beside the health thread   *)
(* and the workers of module Health.  The program may call Run, which      *)
(* starts those threads, before or after JoinCluster.                      *)
(*                                                                         *)
(* Bootstrap's request goes to the leader over the same socket as the      *)
(* health checks of the leader, so here the replies of the leader keep     *)
(* their order in that socket.                                             *)
(***************************************************************************)
EXTENDS Health, Sequences

CONSTANTS
  Leader,      \* the peer that JoinCluster is given
  LeaderList,  \* the node lists that the leader may answer with
  MaxJoins     \* bound: calls of JoinCluster

ASSUME LeaderAssumption == Leader \in Peer
(* A leader is in slot 0 of its own table (KnowsSelf of module Health).    *)
ASSUME LeaderListAssumption ==
  \A l \in LeaderList : l \in Listing /\ 0 \in DOMAIN l /\ l[0] = Leader
ASSUME MaxJoinsAssumption == MaxJoins \in Nat

VARIABLES
  started,   \* Run was called
  main,      \* the main thread: its step, the slot chosen, the list it merges
             \* and the keys of the list that it has still to visit
  joins,     \* calls of JoinCluster so far
  asked,     \* GetNodesInCluster requests that the leader has not answered
  socket,    \* the leader's replies not read yet
  merged,    \* history: Bootstrap has written an entry of a node list
  own_slots  \* history: where Bootstrap wrote the node itself, undisturbed

main_vars == <<main, joins, asked, merged, own_slots>>
imq_vars == <<vars, started, main_vars, socket>>

(* A reply has "nodes", or it has "health" and no nodes.                   *)
NoList == [i \in {} |-> Self]
HealthReply == [kind |-> "health", nodes |-> NoList]
NodesReply(l) == [kind |-> "nodes", nodes |-> l]
IsNodeList(reply) == reply.kind = "nodes"

MainIdle == [pc |-> "idle", slot |-> 0, list |-> NoList, left |-> {}]
MainAt(pc) == [MainIdle EXCEPT !.pc = pc]

IMQInit ==
  /\ Init
  /\ started = FALSE
  /\ main = MainIdle
  /\ joins = 0
  /\ asked = 0
  /\ socket = <<>>
  /\ merged = FALSE
  /\ own_slots = {}

-----------------------------------------------------------------------------
(* Run starts the health thread and the server.                            *)
Run ==
  /\ Running /\ ~ started /\ main.pc = "idle"
  /\ started' = TRUE
  /\ UNCHANGED <<vars, main_vars, socket>>

-----------------------------------------------------------------------------
(* JoinCluster, as far as Bootstrap's NodeInCluster(leader).               *)
JoinCluster ==
  /\ Running /\ main.pc = "idle" /\ joins < MaxJoins
  /\ joins' = joins + 1
  /\ main' = MainAt(IF NodeInCluster(nodes_, Leader) THEN "call" ELSE "add")
  /\ UNCHANGED <<vars, started, asked, socket, merged, own_slots>>

(* Mutant: the search of a full table ends at slot 0.                      *)
MutAddLeaderFindZero ==
  /\ Running /\ main.pc = "add"
  /\ main' = [MainAt("write") EXCEPT
                !.slot = IF FreeSlots(nodes_) = {} THEN 0 ELSE First(FreeSlots(nodes_))]
  /\ UNCHANGED <<vars, started, joins, asked, socket, merged, own_slots>>

(* AddNode(leader), in its two steps.                                      *)
AddLeaderFind ==
  /\ Running /\ main.pc = "add"
  /\ main' = IF FreeSlots(nodes_) = {}
               THEN MainAt("call")
               ELSE [MainAt("write") EXCEPT !.slot = First(FreeSlots(nodes_))]
  /\ UNCHANGED <<vars, started, joins, asked, socket, merged, own_slots>>

AddLeaderWrite ==
  /\ Running /\ main.pc = "write"
  /\ nodes_' = AddNodeAt(nodes_, main.slot, Leader)
  /\ main' = MainAt("call")
  /\ UNCHANGED <<health_vars, worker, peer_vars, channel_vars, started, joins, asked, socket, merged, own_slots>>

(* GetNodeClient and Call ...                                              *)
CallLeader ==
  /\ Running /\ main.pc = "call"
  /\ NodeInCluster(nodes_, Leader)
  /\ main' = MainAt("get")
  /\ asked' = asked + 1
  /\ UNCHANGED <<vars, started, joins, socket, merged, own_slots>>

(* ... or GetNodeClient's exception, which JoinCluster passes to its caller.*)
LeaderNotFound ==
  /\ Running /\ main.pc = "call"
  /\ ~ NodeInCluster(nodes_, Leader)
  /\ main' = MainIdle
  /\ UNCHANGED <<vars, started, joins, asked, socket, merged, own_slots>>

(* Mutant: Bootstrap passes over a reply without nodes and reads on.        *)
MutGetReadsOn ==
  /\ Running /\ main.pc = "get" /\ socket # <<>> /\ ~ IsNodeList(Head(socket))
  /\ socket' = Tail(socket)
  /\ unread' = [unread EXCEPT ![Leader] = @ - 1]
  /\ UNCHANGED <<nodes_, health_vars, worker, peer_vars, pending, started, main_vars>>

(* Get() reads whatever reply comes first.  Only a node list has "nodes":  *)
(* after any other reply, and after a time-out, nothing is merged.         *)
GetNodeList ==
  /\ Running /\ main.pc = "get" /\ socket # <<>> /\ IsNodeList(Head(socket))
  /\ LET l == Head(socket).nodes IN
       main' = [MainAt("merge") EXCEPT !.list = l, !.left = DOMAIN l]
  /\ socket' = Tail(socket)
  /\ UNCHANGED <<vars, started, joins, asked, merged, own_slots>>

GetOtherReply ==
  /\ Running /\ main.pc = "get" /\ socket # <<>> /\ ~ IsNodeList(Head(socket))
  /\ main' = MainIdle
  /\ socket' = Tail(socket)
  /\ unread' = [unread EXCEPT ![Leader] = @ - 1]
  /\ UNCHANGED <<nodes_, health_vars, worker, peer_vars, pending, started, joins, asked, merged, own_slots>>

GetTimesOut ==
  /\ Running /\ main.pc = "get"
  /\ main' = MainIdle
  /\ UNCHANGED <<vars, started, joins, asked, socket, merged, own_slots>>

(* The list is an object whose keys are the slot numbers as text, visited  *)
(* in the order of the text: 0, 1, 10, 11, ..., 19, 2, 20, ...             *)
KeyRank(i) == IF i < 10 THEN i * 11 ELSE (i \div 10) * 11 + 1 + (i % 10)

FirstKey(S) == CHOOSE i \in S : \A j \in S : KeyRank(i) <= KeyRank(j)

(* Another thread is about to write to the slot: a worker that found it    *)
(* free, or the health thread that found in it the node it evicts.         *)
Chosen(i) == i \in found \/ \E w \in Worker : worker[w].pc = "write" /\ worker[w].slot = i

(* AddNode(idx, node) for the next entry; Bootstrap returns after the last.*)
MergeEntry ==
  /\ Running /\ main.pc = "merge" /\ main.left # {}
  /\ LET i == FirstKey(main.left) IN
       /\ nodes_' = AddNodeAt(nodes_, i, main.list[i])
       /\ main' = [main EXCEPT !.left = @ \ {i}]
       /\ own_slots' = IF main.list[i] = Self /\ ~ Chosen(i)
                         THEN own_slots \cup {i} ELSE own_slots \ {i}
  /\ merged' = TRUE
  /\ UNCHANGED <<health_vars, worker, peer_vars, channel_vars, started, joins, asked, socket>>

MergeDone ==
  /\ Running /\ main.pc = "merge" /\ main.left = {}
  /\ main' = MainIdle
  /\ UNCHANGED <<vars, started, joins, asked, socket, merged, own_slots>>

-----------------------------------------------------------------------------
(* The leader and its connection.                                          *)
AnswerJoin ==
  /\ Running /\ Leader \in alive /\ asked > 0
  /\ asked' = asked - 1
  /\ \E l \in LeaderList : socket' = Append(socket, NodesReply(l))
  /\ UNCHANGED <<vars, started, main, joins, merged, own_slots>>

LoseJoin ==
  /\ Running /\ asked > 0
  /\ asked' = asked - 1
  /\ UNCHANGED <<vars, started, main, joins, socket, merged, own_slots>>

(* Mutant: a reply that is not a health reply is passed over.               *)
MutCheckSkipsNodeList ==
  /\ hpc = "waiting" /\ target = Leader /\ socket # <<>> /\ IsNodeList(Head(socket))
  /\ CheckOver
  /\ streak' = [streak EXCEPT ![target] = 0]
  /\ socket' = Tail(socket)
  /\ UNCHANGED <<nodes_, num_retries, todo, worker, peer_vars, channel_vars, started, main_vars>>

(* A health check of the leader takes a node list for its answer.          *)
CheckReadsNodeList ==
  /\ hpc = "waiting" /\ target = Leader /\ socket # <<>> /\ IsNodeList(Head(socket))
  /\ HealthyNodeCallback(target)
  /\ streak' = [streak EXCEPT ![target] = 0]
  /\ socket' = Tail(socket)
  /\ UNCHANGED <<nodes_, todo, worker, peer_vars, channel_vars, started, main_vars>>

-----------------------------------------------------------------------------
(* The steps of Health, once started.  Those that pass a reply of the      *)
(* leader keep the socket in step.                                         *)
LeaderSocket ==
  IF unread'[Leader] > unread[Leader] THEN socket' = Append(socket, HealthReply)
  ELSE IF unread'[Leader] < unread[Leader]
         THEN socket # <<>> /\ ~ IsNodeList(Head(socket)) /\ socket' = Tail(socket)
         ELSE UNCHANGED socket

HealthStep == started /\ HealthThread /\ LeaderSocket /\ UNCHANGED <<started, main_vars>>

WorkerThread(w) ==
  /\ started /\ (WorkerStep(w) \/ ServeJoin(w))
  /\ UNCHANGED <<started, main_vars, socket>>

PeerOrNetwork == \E n \in Peer : PeerStep(n) /\ LeaderSocket /\ UNCHANGED <<started, main_vars>>

MainThread ==
  \/ AddLeaderFind \/ AddLeaderWrite \/ CallLeader \/ LeaderNotFound
  \/ GetNodeList \/ GetOtherReply \/ GetTimesOut
  \/ MergeEntry \/ MergeDone

IMQNext ==
  \/ Run
  \/ JoinCluster
  \/ MainThread
  \/ HealthStep
  \/ CheckReadsNodeList
  \/ \E w \in Worker : WorkerThread(w)
  \/ AnswerJoin
  \/ LoseJoin
  \/ PeerOrNetwork

IMQSpec == IMQInit /\ [][IMQNext]_imq_vars

-----------------------------------------------------------------------------
(* Every variable stays in its set, and the socket holds as many health    *)
(* replies of the leader as module Health counts.                          *)
IMQTypeOK ==
  /\ TypeOK
  /\ started \in BOOLEAN
  /\ main \in [pc : {"idle", "add", "write", "call", "get", "merge"},
               slot : Slot, list : Listing, left : SUBSET Slot]
  /\ main.left \subseteq DOMAIN main.list
  /\ joins \in 0 .. MaxJoins
  /\ asked \in 0 .. MaxJoins
  /\ \A k \in DOMAIN socket : socket[k] = HealthReply \/ socket[k].nodes \in LeaderList
  /\ unread[Leader] = Cardinality({k \in DOMAIN socket : ~ IsNodeList(socket[k])})
  /\ merged \in BOOLEAN
  /\ own_slots \subseteq Slot

(* Until Bootstrap has merged a node list, no interleaving of the main     *)
(* thread's AddNode(leader), registrations and evictions takes the node's  *)
(* own entry out of slot 0 (IMQNode.cpp:52).                               *)
SelfUntilMerge == nodes_[0] # Self => merged

(* The socket to the leader is shared by health checks and JoinCluster:    *)
(* two callers of one channel.  Whichever of them is given which reply,    *)
(* each call sends one request and takes at most one reply.                *)
LeaderCaller == {"health", "main"}

Calling(c) ==
  IF c = "main" THEN main.pc = "get" ELSE hpc = "waiting" /\ target = Leader

LeaderConnection == INSTANCE RPCChannel WITH
  Caller  <- LeaderCaller,
  pending <- pending[Leader] + asked,
  unread  <- Len(socket),
  open    <- {c \in LeaderCaller : Calling(c)}

SharesLeaderChannel == LeaderConnection!Spec

(* A node that has joined stays in its own table: the entry that Bootstrap *)
(* writes for the node itself, in the slot where the leader has it, is     *)
(* there until a later list overwrites it.  No registration takes the slot *)
(* and no eviction clears it, but for one that had chosen the slot before  *)
(* Bootstrap wrote to it (Cluster.cpp:73 against :62-65 and :79-83).       *)
OwnEntryStays == \A i \in own_slots : nodes_[i] = Self

=============================================================================
