------------------------------- MODULE Health --------------------------------
(***************************************************************************)
(* One IMQ node that other nodes join: its health-check thread (class      *)
(* Health), the RPC worker threads that register joining nodes             *)
(* (IMQNode::GetNodesInCluster) and the table nodes_ (class Cluster) that  *)
(* all of them read and write without a lock.                              *)
(*                                                                         *)
(* The health thread runs one CheckHealth call at a time: the RPCResponse  *)
(* of a call is a temporary, and its destructor joins the thread that      *)
(* waits for the reply, so both callbacks run while the health thread      *)
(* waits.  RPCChannel says what such a call may do and RPCResponse shows   *)
(* that the client code does no more; here a call ends with a reply, with  *)
(* a time-out, or abandoned (no callback).                                 *)
(***************************************************************************)
EXTENDS Cluster, FiniteSets

CONSTANTS
  Self,                      \* MetaStore::GetHostAndPort()
  Peer,                      \* the other nodes
  REMOVE_AFTER_NUM_RETRIES,  \* 3 in the code
  Worker,                    \* RPC worker threads (4 in the code)
  MaxOutstanding             \* bound: unread or unanswered checks per peer

ASSUME NodeAssumption == Node = Peer \cup {Self} /\ Self \notin Peer
ASSUME RetriesAssumption == REMOVE_AFTER_NUM_RETRIES \in Nat
ASSUME OutstandingAssumption == MaxOutstanding \in Nat \ {0}

VARIABLES
  nodes_,         \* Cluster::nodes_
  num_retries,    \* Health::potentially_failed_nodes_and_num_retires_, a map
  hpc,            \* where the health thread is
  todo,           \* what is left of the list the current round iterates over
  target,         \* the node whose check is in progress
  found,          \* the slot, if any, in which RemoveNode found the target
  worker,         \* per RPC worker: its step, the requester and the slot chosen
  alive,          \* the peers that are running
  join_requests,  \* peers whose GetNodesInCluster request is unread
  pending,        \* per peer: CheckHealth requests not answered yet
  unread,         \* per peer: replies in the client socket, not read yet
  streak          \* history: time-outs since the peer's last reply or eviction

health_vars == <<num_retries, hpc, todo, target, found, streak>>
peer_vars == <<alive, join_requests>>
channel_vars == <<pending, unread>>
vars == <<nodes_, health_vars, worker, peer_vars, channel_vars>>

Idle == [pc |-> "idle", node |-> NoNode, slot |-> 0]
Replying == [pc |-> "reply", node |-> NoNode, slot |-> 0]

Marked == DOMAIN num_retries

Without(f, x) == [y \in DOMAIN f \ {x} |-> f[y]]

(* An exception that leaves a thread ends the whole process.               *)
Running == hpc # "terminated"

-----------------------------------------------------------------------------
(* The IMQNode constructor adds the node itself; Run starts the threads.   *)
Init ==
  /\ nodes_ = AddNode(EmptyTable, Self)
  /\ num_retries = [n \in {} |-> 0]
  /\ hpc = "sleeping"
  /\ todo = [i \in {} |-> Self]
  /\ target = NoNode
  /\ found = {}
  /\ worker = [w \in Worker |-> Idle]
  /\ alive = Peer
  /\ join_requests = {}
  /\ pending = [n \in Peer |-> 0]
  /\ unread = [n \in Peer |-> 0]
  /\ streak = [n \in Peer |-> 0]

-----------------------------------------------------------------------------
(* The health thread: PerformHealthChecks.                                 *)

(* After the sleep, the round iterates over a copy of the members.         *)
BeginRound ==
  /\ hpc = "sleeping"
  /\ hpc' = "checking"
  /\ todo' = GetNodesWithIdxInCluster(nodes_)
  /\ UNCHANGED <<nodes_, num_retries, target, found, streak, worker, peer_vars, channel_vars>>

Current == todo[First(DOMAIN todo)]

SkipSelf ==
  /\ hpc = "checking" /\ DOMAIN todo # {} /\ Current = Self
  /\ todo' = Without(todo, First(DOMAIN todo))
  /\ UNCHANGED <<nodes_, num_retries, hpc, target, found, streak, worker, peer_vars, channel_vars>>

(* GetNodeClient finds the node in the table and Call sends the request.   *)
(* The socket keeps a request to a peer that is down for its next start;   *)
(* a request beyond MaxOutstanding is taken as lost.                       *)
CallNode ==
  /\ NodeInCluster(nodes_, Current)
  /\ hpc' = "waiting"
  /\ target' = Current
  /\ todo' = Without(todo, First(DOMAIN todo))
  /\ pending' = [pending EXCEPT ![Current] =
                   IF @ + unread[Current] < MaxOutstanding THEN @ + 1 ELSE @]

(* GetNodeClient throws "Node not found." when the copy is out of date and *)
(* nothing on the thread catches it.                                       *)
NodeNotFound ==
  /\ ~ NodeInCluster(nodes_, Current)
  /\ hpc' = "terminated"
  /\ UNCHANGED <<target, todo, pending>>

CheckNode ==
  /\ hpc = "checking" /\ DOMAIN todo # {} /\ Current # Self
  /\ CallNode \/ NodeNotFound
  /\ UNCHANGED <<nodes_, num_retries, found, streak, worker, peer_vars, unread>>

EndRound ==
  /\ hpc = "checking" /\ DOMAIN todo = {}
  /\ hpc' = "sleeping"
  /\ UNCHANGED <<nodes_, num_retries, todo, target, found, streak, worker, peer_vars, channel_vars>>

(* Each callback ends the check, except the one that finds an eviction due.*)
CheckOver == hpc' = "checking" /\ target' = NoNode /\ found' = {}

(* Mutant: a reply leaves the mark where it is.                            *)
MutHealthyKeepsMark(n) == CheckOver /\ UNCHANGED num_retries

(* HealthyNodeCallback: whatever the reply says, the node is not failing.  *)
HealthyNodeCallback(n) ==
  /\ num_retries' = Without(num_retries, n)
  /\ CheckOver

Mark(n) ==
  /\ num_retries' = [m \in Marked \cup {n} |-> IF m = n THEN 0 ELSE num_retries[m]]
  /\ CheckOver

Count(n) ==
  /\ num_retries' = [num_retries EXCEPT ![n] = @ + 1]
  /\ CheckOver

(* RemoveNode's scan.                                                      *)
FindVictim(n) ==
  /\ found' = SlotToRemove(nodes_, n)
  /\ hpc' = "evicting"
  /\ UNCHANGED <<num_retries, target>>

(* Mutants: > for >=; the counter compared after its increment.            *)
MutTimedoutOneTooMany(n) ==
  \/ n \notin Marked /\ Mark(n)
  \/ n \in Marked /\ num_retries[n] <= REMOVE_AFTER_NUM_RETRIES /\ Count(n)
  \/ n \in Marked /\ num_retries[n] > REMOVE_AFTER_NUM_RETRIES /\ FindVictim(n)

MutTimedoutOneTooFew(n) ==
  \/ n \notin Marked /\ Mark(n)
  \/ n \in Marked /\ num_retries[n] + 1 < REMOVE_AFTER_NUM_RETRIES /\ Count(n)
  \/ n \in Marked /\ num_retries[n] + 1 >= REMOVE_AFTER_NUM_RETRIES /\ FindVictim(n)

(* TimedoutNodeCallback: mark, count, or begin to evict.                   *)
TimedoutNodeCallback(n) ==
  \/ n \notin Marked /\ Mark(n)
  \/ n \in Marked /\ num_retries[n] < REMOVE_AFTER_NUM_RETRIES /\ Count(n)
  \/ n \in Marked /\ num_retries[n] >= REMOVE_AFTER_NUM_RETRIES /\ FindVictim(n)

(* The call in progress reads a reply, of this check or of an earlier one. *)
CheckAnswered ==
  /\ hpc = "waiting" /\ unread[target] > 0
  /\ unread' = [unread EXCEPT ![target] = @ - 1]
  /\ HealthyNodeCallback(target)
  /\ streak' = [streak EXCEPT ![target] = 0]
  /\ UNCHANGED <<nodes_, todo, worker, peer_vars, pending>>

(* Mutant: a call that times out the first time is waited for again.       *)
MutTimedOutWaitsAgain ==
  /\ hpc = "waiting"
  /\ \/ TimedoutNodeCallback(target) /\ UNCHANGED pending
     \/ /\ target \notin Marked
        /\ num_retries' = [m \in Marked \cup {target} |-> IF m = target THEN 0 ELSE num_retries[m]]
        /\ pending' = [pending EXCEPT ![target] = @ + 1]
        /\ UNCHANGED <<hpc, target, found>>
  /\ streak' = [streak EXCEPT ![target] = @ + 1]
  /\ UNCHANGED <<nodes_, todo, worker, peer_vars, unread>>

(* The timer runs out.  A reply may have arrived since the last poll.      *)
CheckTimedOut ==
  /\ hpc = "waiting"
  /\ TimedoutNodeCallback(target)
  /\ streak' = [streak EXCEPT ![target] = @ + 1]
  /\ UNCHANGED <<nodes_, todo, worker, peer_vars, channel_vars>>

(* The destructor's running_ = false reaches the loop before a reply or    *)
(* the timer does: no callback.                                            *)
CheckAbandoned ==
  /\ hpc = "waiting"
  /\ CheckOver
  /\ UNCHANGED <<nodes_, num_retries, todo, streak, worker, peer_vars, channel_vars>>

(* Mutant: the node is taken off the retry map but not out of the table.   *)
MutEvictNotRemoved ==
  /\ hpc = "evicting"
  /\ num_retries' = Without(num_retries, target)
  /\ streak' = [streak EXCEPT ![target] = 0]
  /\ CheckOver
  /\ UNCHANGED <<nodes_, todo, worker, peer_vars, channel_vars>>

(* RemoveNode clears the slot it found, whatever it holds by now, and the  *)
(* node is unmarked: the rest of RemoveNodeFromCluster.                    *)
Evict ==
  /\ hpc = "evicting"
  /\ nodes_' = ClearSlots(nodes_, found)
  /\ num_retries' = Without(num_retries, target)
  /\ streak' = [streak EXCEPT ![target] = 0]
  /\ CheckOver
  /\ UNCHANGED <<todo, worker, peer_vars, channel_vars>>

-----------------------------------------------------------------------------
(* The RPC workers: GetNodesInCluster with register_node true.             *)

(* NodeInCluster.                                                          *)
CheckRegistered(w, n) ==
  /\ Running /\ worker[w].pc = "idle" /\ n \in join_requests
  /\ join_requests' = join_requests \ {n}
  /\ worker' = [worker EXCEPT ![w] =
       IF NodeInCluster(nodes_, n) THEN Replying ELSE [pc |-> "add", node |-> n, slot |-> 0]]
  /\ UNCHANGED <<nodes_, health_vars, alive, channel_vars>>

(* Mutants: the search of a full table ends at slot 0, or at the last one;  *)
(* it waits for room.                                                      *)
MutFindSlotZero(w) ==
  /\ Running /\ worker[w].pc = "add"
  /\ worker' = [worker EXCEPT ![w].pc = "write",
       ![w].slot = IF FreeSlots(nodes_) = {} THEN 0 ELSE First(FreeSlots(nodes_))]
  /\ UNCHANGED <<nodes_, health_vars, peer_vars, channel_vars>>

MutFindSlotLast(w) ==
  /\ Running /\ worker[w].pc = "add"
  /\ worker' = [worker EXCEPT ![w].pc = "write",
       ![w].slot = IF FreeSlots(nodes_) = {} THEN MAX_NUM_NODES - 1 ELSE First(FreeSlots(nodes_))]
  /\ UNCHANGED <<nodes_, health_vars, peer_vars, channel_vars>>

MutFindSlotWaits(w) ==
  /\ Running /\ worker[w].pc = "add" /\ FreeSlots(nodes_) # {}
  /\ worker' = [worker EXCEPT ![w].pc = "write", ![w].slot = First(FreeSlots(nodes_))]
  /\ UNCHANGED <<nodes_, health_vars, peer_vars, channel_vars>>

(* AddNode finds a free slot ...                                           *)
FindSlot(w) ==
  /\ Running /\ worker[w].pc = "add"
  /\ worker' = [worker EXCEPT ![w] =
       IF FreeSlots(nodes_) = {}
         THEN Replying
         ELSE [pc |-> "write", node |-> worker[w].node, slot |-> First(FreeSlots(nodes_))]]
  /\ UNCHANGED <<nodes_, health_vars, peer_vars, channel_vars>>

(* ... and assigns it, whatever it holds by now.                           *)
WriteSlot(w) ==
  /\ Running /\ worker[w].pc = "write"
  /\ nodes_' = AddNodeAt(nodes_, worker[w].slot, worker[w].node)
  /\ worker' = [worker EXCEPT ![w] = Replying]
  /\ UNCHANGED <<health_vars, peer_vars, channel_vars>>

(* The reply lists the members as they are now.                            *)
SendReply(w) ==
  /\ Running /\ worker[w].pc = "reply"
  /\ worker' = [worker EXCEPT ![w] = Idle]
  /\ UNCHANGED <<nodes_, health_vars, peer_vars, channel_vars>>

-----------------------------------------------------------------------------
(* The peers.                                                              *)

(* JoinCluster, called again by a caller that timed out.                   *)
Join(n) ==
  /\ Running /\ n \in alive /\ n \notin join_requests
  /\ join_requests' = join_requests \cup {n}
  /\ UNCHANGED <<nodes_, health_vars, worker, alive, channel_vars>>

(* A worker of the peer runs CheckHealthRPC and the reply arrives here.    *)
AnswerCheck(n) ==
  /\ Running /\ n \in alive /\ pending[n] > 0
  /\ pending' = [pending EXCEPT ![n] = @ - 1]
  /\ unread' = [unread EXCEPT ![n] = @ + 1]
  /\ UNCHANGED <<nodes_, health_vars, worker, peer_vars>>

(* A crash, or a broken connection, loses some of the unanswered requests. *)
Crash(n) ==
  /\ Running /\ n \in alive
  /\ alive' = alive \ {n}
  /\ \E k \in 0 .. pending[n] : pending' = [pending EXCEPT ![n] = k]
  /\ UNCHANGED <<nodes_, health_vars, worker, join_requests, unread>>

Disconnect(n) ==
  /\ Running /\ pending[n] > 0
  /\ pending' = [pending EXCEPT ![n] = @ - 1]
  /\ UNCHANGED <<nodes_, health_vars, worker, peer_vars, unread>>

Restart(n) ==
  /\ Running /\ n \in Peer \ alive
  /\ alive' = alive \cup {n}
  /\ UNCHANGED <<nodes_, health_vars, worker, join_requests, channel_vars>>

-----------------------------------------------------------------------------
HealthThread ==
  \/ BeginRound \/ SkipSelf \/ CheckNode \/ EndRound
  \/ CheckAnswered \/ CheckTimedOut \/ CheckAbandoned \/ Evict

WorkerStep(w) == FindSlot(w) \/ WriteSlot(w) \/ SendReply(w)

ServeJoin(w) == \E n \in Peer : CheckRegistered(w, n)

PeerStep(n) ==
  Join(n) \/ AnswerCheck(n) \/ Crash(n) \/ Disconnect(n) \/ Restart(n)

Next ==
  \/ HealthThread
  \/ \E w \in Worker : WorkerStep(w) \/ ServeJoin(w)
  \/ \E n \in Peer : PeerStep(n)

Spec == Init /\ [][Next]_vars

(* Threads that can run do run; a call ends, since its timer runs out.     *)
(* Nothing is assumed of the peers, nor of how a call ends.                *)
Fairness ==
  /\ WF_vars(HealthThread)
  /\ \A w \in Worker : WF_vars(WorkerStep(w)) /\ WF_vars(ServeJoin(w))

FairSpec == Spec /\ Fairness

-----------------------------------------------------------------------------
(* Every variable stays in its set; the counters stay within their bounds. *)
TypeOK ==
  /\ nodes_ \in Table
  /\ Marked \subseteq Peer
  /\ num_retries \in [Marked -> 0 .. REMOVE_AFTER_NUM_RETRIES]
  /\ hpc \in {"sleeping", "checking", "waiting", "evicting", "terminated"}
  /\ todo \in Listing
  /\ target \in Peer \cup {NoNode}
  /\ hpc \in {"waiting", "evicting"} <=> target # NoNode
  /\ found \subseteq Slot
  /\ worker \in [Worker -> [pc : {"idle", "add", "write", "reply"},
                            node : Peer \cup {NoNode}, slot : Slot]]
  /\ \A w \in Worker : worker[w].pc \in {"add", "write"} => worker[w].node # NoNode
  /\ alive \subseteq Peer
  /\ join_requests \subseteq Peer
  /\ pending \in [Peer -> Nat]
  /\ unread \in [Peer -> Nat]
  /\ streak \in [Peer -> Nat]

(* The node's own entry survives every interleaving: it keeps slot 0, no   *)
(* worker holds slot 0 as a free slot to write to, no eviction has found   *)
(* slot 0, and the node is never the target of its own health checks       *)
(* ("Checking our own health doesn't make sense", Health.cpp:78).          *)
KnowsSelf ==
  /\ nodes_[0] = Self
  /\ \A w \in Worker : worker[w].pc = "write" => worker[w].slot # 0
  /\ target # Self /\ 0 \notin found

(* The retry map counts silence exactly: a node is marked when its checks  *)
(* have timed out since its last reply or eviction, and its counter is one *)
(* less than the number of those time-outs (two less once it is being      *)
(* evicted), whatever was abandoned, re-registered or answered late in     *)
(* between.                                                                *)
RetriesCountSilence ==
  \A n \in Peer :
    IF n \in Marked
      THEN streak[n] = num_retries[n] + (IF hpc = "evicting" /\ n = target THEN 2 ELSE 1)
      ELSE streak[n] = 0

(* The health thread clears a slot only if that slot held the node whose   *)
(* check just timed out when RemoveNode scanned it, and only at the        *)
(* (REMOVE_AFTER_NUM_RETRIES + 2)nd time-out of that node in a row.        *)
EvictionAfterSilence ==
  [][/\ hpc = "waiting" /\ hpc' = "evicting" =>
          \A i \in found' : nodes_[i] = target
     /\ hpc = "evicting" /\ hpc' = "checking" =>
          \A i \in Slot : nodes_[i] # nodes_'[i] =>
            i \in found /\ streak[target] = REMOVE_AFTER_NUM_RETRIES + 2]_vars

(* A join request that a worker took is answered, also when the table is   *)
(* full, unless the process dies first.                                    *)
RegistrationAnswered ==
  \A w \in Worker : worker[w].pc # "idle" ~> (worker[w].pc = "idle" \/ ~ Running)

(* A peer that stays down is out of the table for good in the end, unless  *)
(* its checks are abandoned for ever or the process dies.                  *)
EvictedOrAbandoned ==
  \A n \in Peer :
    \/ []<>(n \in alive)
    \/ <>[](~ NodeInCluster(nodes_, n))
    \/ []<><<CheckAbandoned /\ target = n>>_vars
    \/ <>(~ Running)

(* To every peer the health thread is one caller over one connection, and  *)
(* the connection is used as RPCChannel says: a check sends one request    *)
(* and reads one reply at most, whatever rounds, evictions, crashes and    *)
(* late answers there are.                                                 *)
HealthCaller == {"health"}

Connection(n) == INSTANCE RPCChannel WITH
  Caller  <- HealthCaller,
  pending <- pending[n],
  unread  <- unread[n],
  open    <- IF hpc = "waiting" /\ target = n THEN HealthCaller ELSE {}

UsesChannels ==
  /\ \A n \in Peer : Connection(n)!Init
  /\ [][\A n \in Peer : [Connection(n)!Next]_(Connection(n)!vars)]_vars

-----------------------------------------------------------------------------
(* What the comments say and the code does not keep.                       *)

(* GetNodeClient's logic_error (Cluster.cpp:90-92): the health thread only *)
(* asks for clients of members.                                            *)
ChecksMembersOnly == hpc # "terminated"

=============================================================================
