----------------------------- MODULE Registration -----------------------------
(***************************************************************************)
(* The table nodes_ at the grain at which its threads really share it: a   *)
(* slot is a string and a port, every method of class Cluster goes through *)
(* the slots one by one, and nothing is locked.  RPC workers register      *)
(* nodes and list the table, the health thread copies it, looks its        *)
(* members up and evicts some.  Modules Health and IMQNode take a scan and *)
(* the assignment of a slot as one step each; this module shows what is    *)
(* lost by that.                                                           *)
(*                                                                         *)
(* The race on a slot is undefined behaviour; here a half of a slot is     *)
(* read and written in one step, and the halves of an assignment may be    *)
(* written in either order.                                                *)
(***************************************************************************)
EXTENDS Cluster

CONSTANTS
  Self,         \* the node's own address
  Worker,       \* RPC worker threads
  HealthThread, \* the health-check thread
  MaxRequests,  \* bound: registration requests
  MaxRounds     \* bound: rounds of the health thread

(* A node is a host and a port; the empty entry has a host of its own.     *)
ASSUME HostAndPortAssumption ==
  \A n \in Node \cup {NoNode} : n = [host |-> n.host, port |-> n.port]
ASSUME EmptyHostAssumption == \A n \in Node : n.host # NoNode.host
ASSUME SelfAssumption == Self \in Node
ASSUME ThreadAssumption == HealthThread \notin Worker
ASSUME BoundAssumption == MaxRequests \in Nat /\ MaxRounds \in Nat

Half == {"host", "port"}

(* Any host with any port: what a slot may hold between two writes.        *)
Entry == [host : {n.host : n \in Node \cup {NoNode}},
          port : {n.port : n \in Node \cup {NoNode}}]

Thread == Worker \cup {HealthThread}

VARIABLES
  nodes_,     \* Cluster::nodes_
  thread,     \* per thread: its step, the address it handles, the slot it is
              \* at, the host it has read, the halves it has still to write,
              \* and the listing that it builds or works through
  requests,   \* registration requests so far
  rounds,     \* rounds of the health thread so far
  mixed,      \* history: slots last written by two threads at the same time
  disturbed,  \* history: per thread, slots that other threads wrote meanwhile
  twice       \* history: nodes that two workers have served at the same time

history == <<mixed, disturbed, twice>>
vars == <<nodes_, thread, requests, rounds, history>>

NoList == [i \in {} |-> NoNode]
Idle == [pc |-> "idle", node |-> NoNode, i |-> 0, host |-> NoNode.host, left |-> {}, list |-> NoList]

Running == thread[HealthThread].pc # "terminated"

At(t, pc) == Running /\ thread[t].pc = pc

(* On to the next method, from slot 0; or back to the round.               *)
Slot0(th, pc) == [th EXCEPT !.pc = pc, !.i = 0]

Round(th) == [Idle EXCEPT !.pc = "round", !.list = th.list]

Goto(t, th) == thread' = [thread EXCEPT ![t] = th]

(* The thread has written one half of a slot and not yet the other.        *)
MidWrite(t, i) == thread[t].left \in {{"host"}, {"port"}} /\ thread[t].i = i

(* The node has added itself, and has registered one node or none so far.  *)
Init ==
  /\ LET alone == AddNode(EmptyTable, Self) IN
       nodes_ \in {alone} \cup {AddNode(alone, n) : n \in Node \ {Self}}
  /\ thread = [t \in Thread |-> Idle]
  /\ requests = 0
  /\ rounds = 0
  /\ mixed = {}
  /\ disturbed = [t \in Thread |-> {}]
  /\ twice = {}

-----------------------------------------------------------------------------
(* An operation begins undisturbed, but for slots that are half written.   *)
Undisturbed(t) ==
  disturbed' = [disturbed EXCEPT ![t] =
                  {i \in Slot : \E u \in Thread \ {t} : MidWrite(u, i)}]

(* Mutant: the handler does not look whether the node is registered.       *)
MutRequestNoCheck(w, n) ==
  /\ At(w, "idle") /\ requests < MaxRequests
  /\ requests' = requests + 1
  /\ Goto(w, [Idle EXCEPT !.pc = "search", !.node = n])
  /\ Undisturbed(w)
  /\ twice' = twice \cup {m \in {n} : \E u \in Worker : thread[u].node = m}
  /\ UNCHANGED <<nodes_, rounds, mixed>>

(* GetNodesInCluster with register_node: the request of a node, perhaps    *)
(* sent again while another worker serves the first.                       *)
Request(w, n) ==
  /\ At(w, "idle") /\ requests < MaxRequests
  /\ requests' = requests + 1
  /\ Goto(w, [Idle EXCEPT !.pc = "find", !.node = n])
  /\ Undisturbed(w)
  /\ twice' = twice \cup {m \in {n} : \E u \in Worker : thread[u].node = m}
  /\ UNCHANGED <<nodes_, rounds, mixed>>

(* A round of PerformHealthChecks copies the members.                      *)
BeginRound ==
  /\ At(HealthThread, "idle") /\ rounds < MaxRounds
  /\ rounds' = rounds + 1
  /\ Goto(HealthThread, [Idle EXCEPT !.pc = "list_test"])
  /\ Undisturbed(HealthThread)
  /\ UNCHANGED <<nodes_, requests, mixed, twice>>

-----------------------------------------------------------------------------
(* NodeInCluster: slot by slot, the port only when the host is equal.      *)
Found(t) == Slot0(thread[t], IF t = HealthThread THEN "check" ELSE "list")

(* A worker goes on to AddNode; GetNodeClient throws on the health thread. *)
NotFound(t) == Slot0(thread[t], IF t = HealthThread THEN "terminated" ELSE "search")

FindNext(t) ==
  IF thread[t].i + 1 \in Slot
    THEN [thread[t] EXCEPT !.pc = "find", !.i = @ + 1]
    ELSE NotFound(t)

FindHost(t) ==
  /\ At(t, "find")
  /\ LET th == thread[t] IN
       Goto(t, IF nodes_[th.i].host = th.node.host
                 THEN [th EXCEPT !.pc = "find_port"] ELSE FindNext(t))
  /\ UNCHANGED <<nodes_, requests, rounds, history>>

FindPort(t) ==
  /\ At(t, "find_port")
  /\ LET th == thread[t] IN
       Goto(t, IF nodes_[th.i].port = th.node.port THEN Found(t) ELSE FindNext(t))
  /\ UNCHANGED <<nodes_, requests, rounds, history>>

(* AddNode looks for a slot with an empty host; a full table is left alone.*)
Search(w) ==
  /\ At(w, "search")
  /\ LET th == thread[w] IN
       Goto(w, IF nodes_[th.i].host = NoNode.host
                 THEN [th EXCEPT !.pc = "write", !.left = Half]
               ELSE IF th.i + 1 \in Slot
                 THEN [th EXCEPT !.i = @ + 1]
               ELSE Slot0(th, "list"))
  /\ UNCHANGED <<nodes_, requests, rounds, history>>

(* RemoveNode copies a slot, host first, and compares the copy; the port   *)
(* matters only if the host is equal.                                      *)
ScanNext(th) ==
  IF th.i + 1 \in Slot THEN [th EXCEPT !.pc = "scan", !.i = @ + 1] ELSE Round(th)

ScanHost ==
  /\ At(HealthThread, "scan")
  /\ LET th == thread[HealthThread] IN
       Goto(HealthThread, IF nodes_[th.i].host = th.node.host
                            THEN [th EXCEPT !.pc = "scan_port"] ELSE ScanNext(th))
  /\ UNCHANGED <<nodes_, requests, rounds, history>>

(* Mutants: the slot after it is cleared; the ports are not compared.      *)
MutScanPortOneTooFar ==
  /\ At(HealthThread, "scan_port")
  /\ LET th == thread[HealthThread] IN
       Goto(HealthThread, IF nodes_[th.i].port = th.node.port /\ th.i + 1 \in Slot
                            THEN [th EXCEPT !.pc = "clear", !.i = @ + 1, !.left = Half]
                            ELSE ScanNext(th))
  /\ UNCHANGED <<nodes_, requests, rounds, history>>

MutScanHostOnly ==
  /\ At(HealthThread, "scan_port")
  /\ Goto(HealthThread, [thread[HealthThread] EXCEPT !.pc = "clear", !.left = Half])
  /\ UNCHANGED <<nodes_, requests, rounds, history>>

ScanPort ==
  /\ At(HealthThread, "scan_port")
  /\ LET th == thread[HealthThread] IN
       Goto(HealthThread, IF nodes_[th.i].port = th.node.port
                            THEN [th EXCEPT !.pc = "clear", !.left = Half] ELSE ScanNext(th))
  /\ UNCHANGED <<nodes_, requests, rounds, history>>

-----------------------------------------------------------------------------
(* The assignments to nodes_[i].                                           *)
Writing(t) == thread[t].pc \in {"write", "clear"}

Assigned(t) == IF thread[t].pc = "write" THEN thread[t].node ELSE NoNode

Written(t) ==
  IF t = HealthThread THEN Round(thread[t])
                      ELSE [Slot0(thread[t], "list") EXCEPT !.left = {}]

(* A write that begins while another thread is in the middle of one at the *)
(* same slot leaves a mixture; one that begins alone ends it.              *)
NoteWrite(t, i) ==
  /\ mixed' = IF thread[t].left # Half THEN mixed
              ELSE IF \E u \in Thread \ {t} : MidWrite(u, i) THEN mixed \cup {i}
              ELSE mixed \ {i}
  /\ disturbed' = [u \in Thread |->
       IF u = t \/ thread[u].pc = "idle" THEN disturbed[u] ELSE disturbed[u] \cup {i}]

(* Mutant: only the host is assigned.                                      *)
MutWriteHostOnly(t, h) ==
  /\ Running /\ Writing(t) /\ h = "host"
  /\ nodes_' = [nodes_ EXCEPT ![thread[t].i][h] = Assigned(t)[h]]
  /\ Goto(t, Written(t))
  /\ NoteWrite(t, thread[t].i)
  /\ UNCHANGED <<requests, rounds, twice>>

WriteHalf(t, h) ==
  /\ Running /\ Writing(t) /\ h \in thread[t].left
  /\ nodes_' = [nodes_ EXCEPT ![thread[t].i][h] = Assigned(t)[h]]
  /\ Goto(t, IF thread[t].left = {h} THEN Written(t) ELSE [thread[t] EXCEPT !.left = @ \ {h}])
  /\ NoteWrite(t, thread[t].i)
  /\ UNCHANGED <<requests, rounds, twice>>

-----------------------------------------------------------------------------
(* The two listings.  GetNodesWithIdxInCluster (workers) copies a slot and *)
(* drops the copy if its host is empty; GetNodesInCluster (health thread)  *)
(* tests the slot and then copies it.                                      *)
ListNext(t, th) ==
  IF th.i + 1 \in Slot
    THEN [th EXCEPT !.pc = IF t = HealthThread THEN "list_test" ELSE "list", !.i = @ + 1]
    ELSE IF t = HealthThread THEN Round(th) ELSE Slot0(th, "reply")

ListTest ==
  /\ At(HealthThread, "list_test")
  /\ LET th == thread[HealthThread] IN
       Goto(HealthThread, IF nodes_[th.i].host = NoNode.host
                            THEN ListNext(HealthThread, th) ELSE [th EXCEPT !.pc = "list"])
  /\ UNCHANGED <<nodes_, requests, rounds, history>>

(* Mutant: a worker lists the slots up to the first that is empty.         *)
MutListHostStops(t) ==
  /\ At(t, "list")
  /\ LET th == thread[t]
         host == nodes_[th.i].host
     IN Goto(t, IF t # HealthThread /\ host = NoNode.host
                  THEN Slot0(th, "reply") ELSE [th EXCEPT !.pc = "list_port", !.host = host])
  /\ UNCHANGED <<nodes_, requests, rounds, history>>

ListHost(t) ==
  /\ At(t, "list")
  /\ LET th == thread[t]
         host == nodes_[th.i].host
     IN Goto(t, IF t # HealthThread /\ host = NoNode.host
                  THEN ListNext(t, th) ELSE [th EXCEPT !.pc = "list_port", !.host = host])
  /\ UNCHANGED <<nodes_, requests, rounds, history>>

ListPort(t) ==
  /\ At(t, "list_port")
  /\ LET th == thread[t]
         entry == [host |-> th.host, port |-> nodes_[th.i].port]
     IN Goto(t, ListNext(t, [th EXCEPT
                  !.host = NoNode.host,
                  !.list = [i \in DOMAIN @ \cup {th.i} |-> IF i = th.i THEN entry ELSE @[i]]]))
  /\ UNCHANGED <<nodes_, requests, rounds, history>>

Ends(t) ==
  /\ Goto(t, Idle)
  /\ disturbed' = [disturbed EXCEPT ![t] = {}]
  /\ UNCHANGED <<nodes_, requests, rounds, mixed, twice>>

Reply(w) == At(w, "reply") /\ Ends(w)

-----------------------------------------------------------------------------
(* The rest of a round: each member of the copy but the node itself is     *)
(* looked up and called; the call may be the last of a row of time-outs.   *)
NextMember(th) ==
  LET k == First(DOMAIN th.list)
      rest == [i \in DOMAIN th.list \ {k} |-> th.list[i]]
  IN IF th.list[k] = Self
       THEN [th EXCEPT !.list = rest]
       ELSE [th EXCEPT !.list = rest, !.node = th.list[k], !.pc = "find"]

CheckNext ==
  /\ At(HealthThread, "round") /\ DOMAIN thread[HealthThread].list # {}
  /\ Goto(HealthThread, NextMember(thread[HealthThread]))
  /\ UNCHANGED <<nodes_, requests, rounds, history>>

CheckEnds(th) ==
  /\ At(HealthThread, "check")
  /\ Goto(HealthThread, th)
  /\ UNCHANGED <<nodes_, requests, rounds, history>>

MemberStays == CheckEnds(Round(thread[HealthThread]))

RemoveNode == CheckEnds(Slot0(thread[HealthThread], "scan"))

EndRound ==
  At(HealthThread, "round") /\ DOMAIN thread[HealthThread].list = {} /\ Ends(HealthThread)

-----------------------------------------------------------------------------
WorkerStep(w) ==
  \/ \E n \in Node \ {Self} : Request(w, n)
  \/ Search(w) \/ Reply(w)

HealthStep ==
  \/ BeginRound \/ ListTest \/ CheckNext \/ MemberStays \/ RemoveNode
  \/ ScanHost \/ ScanPort \/ EndRound

ThreadStep(t) ==
  \/ FindHost(t) \/ FindPort(t)
  \/ \E h \in Half : WriteHalf(t, h)
  \/ ListHost(t) \/ ListPort(t)

Next ==
  \/ \E w \in Worker : WorkerStep(w)
  \/ HealthStep
  \/ \E t \in Thread : ThreadStep(t)

Spec == Init /\ [][Next]_vars

-----------------------------------------------------------------------------
(* Every variable stays in its set; halves are left to write only in an    *)
(* assignment, and a listing goes no further than the thread has read.     *)
TypeOK ==
  /\ nodes_ \in [Slot -> Entry]
  /\ DOMAIN thread = Thread
  /\ \A t \in Thread :
       /\ thread[t].pc \in {"idle", "find", "find_port", "search", "write", "list_test", "list",
                            "list_port", "reply", "round", "check", "scan", "scan_port", "clear", "terminated"}
       /\ thread[t].node \in Entry
       /\ thread[t].i \in Slot
       /\ thread[t].host \in {n.host : n \in Node \cup {NoNode}}
       /\ thread[t].left \subseteq Half
       /\ Writing(t) <=> thread[t].left # {}
       /\ DOMAIN thread[t].list \subseteq Slot
       /\ \A i \in DOMAIN thread[t].list : thread[t].list[i] \in Entry
       /\ thread[t].pc \in {"list_test", "list", "list_port"} =>
            \A i \in DOMAIN thread[t].list : i < thread[t].i
  /\ requests \in 0 .. MaxRequests
  /\ rounds \in 0 .. MaxRounds
  /\ mixed \subseteq Slot
  /\ disturbed \in [Thread -> SUBSET Slot]
  /\ twice \subseteq Node

(* Also when slots are torn, so that entries look like other nodes, and    *)
(* when a torn address is evicted, nobody is ever about to write to slot 0,*)
(* where the node itself is (IMQNode.cpp:52).                              *)
OwnSlotWhole ==
  nodes_[0] = Self /\ \A t \in Thread : Writing(t) => thread[t].i # 0

(* The host of one node with the port of another stays in the table only   *)
(* if two assignments to that slot overlapped: an assignment that ends in  *)
(* a slot which nobody else was writing leaves what it assigned.           *)
WholeUnlessOverlapped ==
  [][\A t \in Thread :
       Writing(t) /\ thread'[t].left = {} /\ thread[t].i \notin mixed'
         => nodes_'[thread[t].i] = Assigned(t)]_vars

(* What a requester is told of a slot is what the slot holds, unless some  *)
(* other thread wrote to it since the request was taken; and a requester   *)
(* with no other writer about is registered unless the table is full       *)
(* (IMQNode.cpp:25-30).                                                    *)
Isolated ==
  \A w \in Worker : thread[w].pc = "reply" =>
    /\ \A i \in Slot \ disturbed[w] :
         IF nodes_[i].host = NoNode.host THEN i \notin DOMAIN thread[w].list
         ELSE i \in DOMAIN thread[w].list /\ thread[w].list[i] = nodes_[i]
    /\ disturbed[w] = {} =>
         \/ NodeInCluster(nodes_, thread[w].node)
         \/ \A i \in Slot : nodes_[i].host # NoNode.host

(* No node is in two slots, unless two workers served its requests at the  *)
(* same time or the entry is a mixture of two others.                      *)
NoMemberTwice ==
  \A i, j \in Slot :
    i # j /\ nodes_[i] = nodes_[j] /\ nodes_[i] \in Node =>
      \/ nodes_[i] \in twice
      \/ \E k \in {i, j} : k \in mixed \/ \E t \in Thread : MidWrite(t, k)

(* The health thread meets an address that is not in the table only if     *)
(* another thread wrote to the table since the round began: its own        *)
(* evictions and duplicates never make GetNodeClient throw                 *)
(* (Cluster.cpp:90).                                                       *)
ThrowHasCause == ~ Running => disturbed[HealthThread] # {}

=============================================================================
