------------------------------ MODULE Membership ------------------------------
(***************************************************************************)
(* Several nodes, each a process with a table of its own, that join        *)
(* through one leader: what a slot of one table means in another, and how  *)
(* long a node that is gone is remembered, when requests and replies are   *)
(* lost or late, joins time out and are repeated, and processes crash and  *)
(* restart with an empty table.                                            *)
(*                                                                         *)
(* Each node is seen from the outside: a merge and an eviction are one     *)
(* step each (IMQNode and Health take them apart), and of the failure      *)
(* detector only the evictions are left, of nodes that are down and of     *)
(* nodes that are merely slow.  A registration at the leader keeps its     *)
(* steps, since two workers may run it at the same time.                   *)
(***************************************************************************)
EXTENDS Cluster, Sequences, FiniteSets

CONSTANTS
  Leader,      \* the node that the others give to JoinCluster
  Worker,      \* RPC workers of the leader
  MaxJoins,    \* bound: calls of JoinCluster of all nodes together
  MaxFaults    \* bound: crashes and evictions of nodes that are up

ASSUME LeaderAssumption == Leader \in Node
ASSUME BoundAssumption == MaxJoins \in Nat /\ MaxFaults \in Nat

Joiner == Node \ {Leader}

VARIABLES
  up,       \* the processes that run
  ran,      \* those that have called IMQNode::Run
  table,    \* Cluster::nodes_ of each process
  main,     \* per joiner: where the program is, "call" and "get" in Bootstrap
  joins,    \* calls of JoinCluster so far
  asked,    \* per joiner: its requests that the leader has not read
  orphans,  \* per joiner: such requests of a process that has crashed
  socket,   \* per joiner: node lists that it has not read
  worker,   \* per worker of the leader: what it does for whom
  faults,   \* such faults so far
  joined,   \* history: joiners that have merged a list since they started
  causes    \* history: the leader has "evicted" a node or has "restarted",
            \* or two of its workers have "overlapped"

join_vars == <<main, joins, asked, orphans, socket>>
history == <<joined, causes>>
vars == <<up, ran, table, join_vars, worker, faults, history>>

(* answers: the process that asked still runs.                             *)
Idle == [pc |-> "idle", node |-> NoNode, slot |-> 0, answers |-> FALSE]

(* The constructor of IMQNode adds the node itself.                        *)
NewTable(n) == AddNode(EmptyTable, n)

Init ==
  /\ up = Node
  /\ ran = {}
  /\ table = [n \in Node |-> NewTable(n)]
  /\ main = [n \in Joiner |-> "idle"]
  /\ joins = 0
  /\ asked = [n \in Joiner |-> 0]
  /\ orphans = [n \in Joiner |-> 0]
  /\ socket = [n \in Joiner |-> <<>>]
  /\ worker = [w \in Worker |-> Idle]
  /\ faults = 0
  /\ joined = {}
  /\ causes = {}

-----------------------------------------------------------------------------
(* IMQNode::Run: from now on the node answers and checks.                  *)
Run(n) ==
  /\ n \in up \ ran
  /\ n \in Joiner => main[n] = "idle"
  /\ ran' = ran \cup {n}
  /\ UNCHANGED <<up, table, join_vars, worker, faults, history>>

(* JoinCluster, to the point where the leader has been added.              *)
JoinCluster(n) ==
  /\ n \in up /\ main[n] = "idle" /\ joins < MaxJoins
  /\ joins' = joins + 1
  /\ main' = [main EXCEPT ![n] = "call"]
  /\ table' = [table EXCEPT ![n] = IF NodeInCluster(@, Leader) THEN @ ELSE AddNode(@, Leader)]
  /\ UNCHANGED <<up, ran, asked, orphans, socket, worker, faults, history>>

(* Call, unless the leader has been evicted meanwhile or the table is full.*)
CallLeader(n) ==
  /\ n \in up /\ main[n] = "call" /\ NodeInCluster(table[n], Leader)
  /\ main' = [main EXCEPT ![n] = "get"]
  /\ asked' = [asked EXCEPT ![n] = @ + 1]
  /\ UNCHANGED <<up, ran, table, joins, orphans, socket, worker, faults, history>>

LeaderNotFound(n) ==
  /\ n \in up /\ main[n] = "call" /\ ~ NodeInCluster(table[n], Leader)
  /\ main' = [main EXCEPT ![n] = "idle"]
  /\ UNCHANGED <<up, ran, table, joins, asked, orphans, socket, worker, faults, history>>

(* Mutants: a slot that is taken is left alone; the last entry is missed.  *)
MutMergeKeeps(t, list) ==
  [i \in Slot |-> IF t[i] = NoNode /\ i \in DOMAIN list THEN list[i] ELSE t[i]]

MutMergeAllButLast(t, list) ==
  [i \in Slot |-> IF \E j \in DOMAIN list : i \in DOMAIN list /\ i < j THEN list[i] ELSE t[i]]

(* AddNode(idx, node) for each entry of the list.                          *)
Merge(t, list) == [i \in Slot |-> IF i \in DOMAIN list THEN list[i] ELSE t[i]]

(* Get() takes the oldest list in the socket, of this join or an earlier.  *)
GetNodeList(n) ==
  /\ n \in up /\ main[n] = "get" /\ socket[n] # <<>>
  /\ table' = [table EXCEPT ![n] = Merge(@, Head(socket[n]))]
  /\ socket' = [socket EXCEPT ![n] = Tail(@)]
  /\ main' = [main EXCEPT ![n] = "idle"]
  /\ joined' = joined \cup {n}
  /\ UNCHANGED <<up, ran, joins, asked, orphans, worker, faults, causes>>

GetTimesOut(n) ==
  /\ n \in up /\ main[n] = "get"
  /\ main' = [main EXCEPT ![n] = "idle"]
  /\ UNCHANGED <<up, ran, table, joins, asked, orphans, socket, worker, faults, history>>

-----------------------------------------------------------------------------
(* The leader's workers run GetNodesInCluster: NodeInCluster and AddNode's *)
(* search, its assignment, and the listing.                                *)
Register(w, n, answers) ==
  /\ Leader \in up \cap ran /\ worker[w].pc = "idle"
  /\ worker' = [worker EXCEPT ![w] =
       IF NodeInCluster(table[Leader], n) \/ FreeSlots(table[Leader]) = {}
         THEN [pc |-> "list", node |-> n, slot |-> 0, answers |-> answers]
         ELSE [pc |-> "write", node |-> n, slot |-> First(FreeSlots(table[Leader])), answers |-> answers]]
  /\ causes' = causes \cup {c \in {"overlapped"} : \E u \in Worker : worker[u].pc = "write"}
  /\ UNCHANGED <<up, ran, table, main, joins, socket, faults, joined>>

TakeRequest(w, n) ==
  /\ asked[n] > 0
  /\ asked' = [asked EXCEPT ![n] = @ - 1]
  /\ Register(w, n, TRUE)
  /\ UNCHANGED orphans

TakeOrphan(w, n) ==
  /\ orphans[n] > 0
  /\ orphans' = [orphans EXCEPT ![n] = @ - 1]
  /\ Register(w, n, FALSE)
  /\ UNCHANGED asked

WriteSlot(w) ==
  /\ worker[w].pc = "write"
  /\ table' = [table EXCEPT ![Leader] = AddNodeAt(@, worker[w].slot, worker[w].node)]
  /\ worker' = [worker EXCEPT ![w].pc = "list", ![w].slot = 0]
  /\ UNCHANGED <<up, ran, join_vars, faults, history>>

(* The reply to a process that has crashed goes nowhere.                   *)
Reply(w) ==
  /\ worker[w].pc = "list"
  /\ socket' = IF worker[w].answers
       THEN [socket EXCEPT ![worker[w].node] = Append(@, GetNodesWithIdxInCluster(table[Leader]))]
       ELSE socket
  /\ worker' = [worker EXCEPT ![w] = Idle]
  /\ UNCHANGED <<up, ran, table, main, joins, asked, orphans, faults, history>>

-----------------------------------------------------------------------------
Fault == faults < MaxFaults /\ faults' = faults + 1

(* Mutant: the scan stops before the last slot.                            *)
MutEvictButLast(n, m) ==
  /\ n \in up \cap ran /\ m # n /\ NodeInCluster(table[n], m)
  /\ table' = [table EXCEPT ![n] = ClearSlots(@, SlotToRemove(@, m) \ {MAX_NUM_NODES - 1})]
  /\ causes' = causes \cup {c \in {"evicted"} : n = Leader}
  /\ (IF m \in up THEN Fault ELSE UNCHANGED faults)
  /\ UNCHANGED <<up, ran, join_vars, worker, joined>>

(* The health thread of a node evicts another, whose checks timed out      *)
(* often enough since it is down, or slow, or cut off.                     *)
Evict(n, m) ==
  /\ n \in up \cap ran /\ m # n /\ NodeInCluster(table[n], m)
  /\ table' = [table EXCEPT ![n] = ClearSlots(@, SlotToRemove(@, m))]
  /\ causes' = causes \cup {c \in {"evicted"} : n = Leader}
  /\ (IF m \in up THEN Fault ELSE UNCHANGED faults)
  /\ UNCHANGED <<up, ran, join_vars, worker, joined>>

EvictDown(n, m) == m \notin up /\ Evict(n, m)

-----------------------------------------------------------------------------
(* The environment.  A lost request is one that the leader never reads; a  *)
(* reply is lost with a connection, or a health check of the leader reads  *)
(* it (CheckReadsNodeList of module IMQNode).                              *)
LoseReply(n) ==
  /\ socket[n] # <<>>
  /\ socket' = [socket EXCEPT ![n] = Tail(@)]
  /\ UNCHANGED <<up, ran, table, main, joins, asked, orphans, worker, faults, history>>

(* A process ends.  What it sent may still reach the leader.               *)
CrashJoiner(n) ==
  /\ n \in up
  /\ Fault
  /\ up' = up \ {n} /\ ran' = ran \ {n}
  /\ main' = [main EXCEPT ![n] = "idle"]
  /\ asked' = [asked EXCEPT ![n] = 0]
  /\ \E k \in 0 .. asked[n] : orphans' = [orphans EXCEPT ![n] = @ + k]
  /\ socket' = [socket EXCEPT ![n] = <<>>]
  /\ worker' = [w \in Worker |-> IF worker[w].node = n THEN [worker[w] EXCEPT !.answers = FALSE] ELSE worker[w]]
  /\ joined' = joined \ {n}
  /\ UNCHANGED <<table, joins, causes>>

CrashLeader ==
  /\ Leader \in up
  /\ Fault
  /\ up' = up \ {Leader} /\ ran' = ran \ {Leader}
  /\ worker' = [w \in Worker |-> Idle]
  /\ UNCHANGED <<table, join_vars, history>>

Restart(n) ==
  /\ n \in Node \ up
  /\ up' = up \cup {n}
  /\ table' = [table EXCEPT ![n] = NewTable(n)]
  /\ causes' = causes \cup {c \in {"restarted"} : n = Leader}
  /\ UNCHANGED <<ran, join_vars, worker, faults, joined>>

-----------------------------------------------------------------------------
JoinStep(n) ==
  \/ JoinCluster(n) \/ CallLeader(n) \/ LeaderNotFound(n)
  \/ GetNodeList(n) \/ GetTimesOut(n)

WorkerStep(w) ==
  \/ \E n \in Joiner : TakeRequest(w, n) \/ TakeOrphan(w, n)
  \/ WriteSlot(w) \/ Reply(w)

Environment ==
  \/ \E n \in Joiner : LoseReply(n) \/ CrashJoiner(n)
  \/ CrashLeader
  \/ \E n \in Node : Restart(n)

Next ==
  \/ \E n \in Node : Run(n)
  \/ \E n \in Joiner : JoinStep(n)
  \/ \E w \in Worker : WorkerStep(w)
  \/ \E n, m \in Node : Evict(n, m)
  \/ Environment

Spec == Init /\ [][Next]_vars

(* A node that runs evicts a member that is down: EvictedOrAbandoned of    *)
(* module Health.  Nothing is assumed of joins, messages or restarts.      *)
Fairness == \A n, m \in Node : WF_vars(EvictDown(n, m))

FairSpec == Spec /\ Fairness

-----------------------------------------------------------------------------
Answering(n) == {w \in Worker : worker[w].node = n /\ worker[w].answers}

(* Every variable stays in its set, and no request is answered twice.      *)
TypeOK ==
  /\ ran \subseteq up /\ up \subseteq Node
  /\ table \in [Node -> Table]
  /\ main \in [Joiner -> {"idle", "call", "get"}]
  /\ joins \in 0 .. MaxJoins
  /\ orphans \in [Joiner -> Nat]
  /\ DOMAIN socket = Joiner
  /\ \A n \in Joiner :
       /\ \A k \in DOMAIN socket[n] : socket[n][k] \in Listing
       /\ asked[n] \in Nat
       /\ asked[n] + Cardinality(Answering(n)) + Len(socket[n]) <= joins
       /\ n \notin up => main[n] = "idle" /\ asked[n] = 0 /\ socket[n] = <<>>
  /\ worker \in [Worker -> [pc : {"idle", "write", "list"}, node : Joiner \cup {NoNode},
                            slot : Slot, answers : BOOLEAN]]
  /\ faults \in 0 .. MaxFaults
  /\ joined \subseteq Joiner \cap up
  /\ causes \subseteq {"evicted", "restarted", "overlapped"}

(* A slot number means the same node at every node that has joined as at   *)
(* the leader, whatever was lost, late or repeated and whoever crashed,    *)
(* unless the leader evicted somebody or restarted, or two of its workers  *)
(* registered nodes at the same time (Cluster.cpp:73, IMQNode.cpp:38).     *)
SlotsAgree ==
  causes = {} =>
    \A n \in joined, i \in Slot :
      table[n][i] = NoNode \/ table[n][i] = table[Leader][i]

(* With the same exceptions, and if the leader has room, a node that has   *)
(* joined is a member both in its own eyes and in the leader's, also when  *)
(* the list that it read was the answer to an earlier join.                *)
JoinedIsMember ==
  causes = {} =>
    \A n \in joined :
      \/ NodeInCluster(table[n], n) /\ NodeInCluster(table[Leader], n)
      \/ FreeSlots(table[Leader]) = {}

(* A node that is down for good is in the end gone from the table of every *)
(* node that stays up: no list in a socket and no request that it sent     *)
(* before it went down brings it back for ever (Health.hpp:78).            *)
Forgotten ==
  \A n, m \in Node :
    <>[](n \in up \cap ran /\ m \notin up) => <>[](~ NodeInCluster(table[n], m))

=============================================================================
