--------------------------- MODULE MembershipProofs ---------------------------
(***************************************************************************)
(* Theorems about Membership, for any number of nodes, slots, workers,     *)
(* joins and faults: slot numbers agree and joiners are members, as long   *)
(* as nothing in "causes" has happened.                                    *)
(***************************************************************************)
EXTENDS Membership, ClusterProofs, SequenceTheorems, FiniteSetTheorems

-----------------------------------------------------------------------------
WorkerState == [pc : {"idle", "write", "list"}, node : Joiner \cup {NoNode},
                slot : Slot, answers : BOOLEAN]

Types ==
  /\ ran \subseteq up /\ up \subseteq Node
  /\ table \in [Node -> Table]
  /\ main \in [Joiner -> {"idle", "call", "get"}]
  /\ joins \in 0 .. MaxJoins
  /\ asked \in [Joiner -> Nat]
  /\ orphans \in [Joiner -> Nat]
  /\ socket \in [Joiner -> Seq(Listing)]
  /\ worker \in [Worker -> WorkerState]
  /\ faults \in 0 .. MaxFaults
  /\ joined \subseteq Joiner \cap up
  /\ causes \subseteq {"evicted", "restarted", "overlapped"}

(* Nothing is in flight for a process that is down: it has no request of   *)
(* its own, no list, and no worker that will answer it.                    *)
Abandoned ==
  /\ \A n \in Joiner : n \notin up => main[n] = "idle" /\ asked[n] = 0 /\ socket[n] = <<>>
  /\ \A w \in Worker : /\ worker[w].pc = "idle" <=> worker[w].node = NoNode
                       /\ worker[w].answers => worker[w].node \in up

LEMMA NodeFacts ==
  /\ Leader \in Node /\ Leader \notin Joiner /\ Joiner \subseteq Node
  /\ NoNode \notin Node /\ NoNode \notin Joiner /\ Leader # NoNode
  /\ \A n \in Node : n # Leader => n \in Joiner
  /\ 0 \in Slot
  BY LeaderAssumption, NoNodeAssumption, MaxNumNodesAssumption DEF Joiner, Slot

LEMMA IdleFacts ==
  /\ Idle \in WorkerState
  /\ Idle.pc = "idle" /\ Idle.node = NoNode /\ Idle.answers = FALSE
  BY NodeFacts DEF Idle, WorkerState

LEMMA NewTableType ==
  ASSUME NEW n \in Node
  PROVE  NewTable(n) \in Table
  BY AddNodeType, EmptyTableType DEF NewTable

(* What the table of the joiner, and the leader's, look like afterwards.   *)
LEMMA MergeType ==
  ASSUME NEW t \in Table, NEW l \in Listing
  PROVE  /\ Merge(t, l) \in Table
         /\ \A i \in Slot : Merge(t, l)[i] = IF i \in DOMAIN l THEN l[i] ELSE t[i]
         /\ DOMAIN l \subseteq Slot /\ \A i \in DOMAIN l : l[i] \in Node
<1>1. PICK S \in SUBSET Slot : l \in [S -> Node]
  BY DEF Listing
<1> QED
  BY <1>1 DEF Merge, Table

(* What a worker has once it has a request: the state it is in, as a new   *)
(* record s.                                                               *)
Registered(w, n, answers, s) ==
  /\ worker' = [worker EXCEPT ![w] = s]
  /\ s \in WorkerState /\ s.node = n /\ s.answers = answers
  /\ \/ /\ s.pc = "list"
        /\ NodeInCluster(table[Leader], n) \/ FreeSlots(table[Leader]) = {}
     \/ /\ s.pc = "write"
        /\ FreeSlots(table[Leader]) # {} /\ s.slot = First(FreeSlots(table[Leader]))

LEMMA RegisterFacts ==
  ASSUME Types, NEW w \in Worker, NEW n \in Joiner, NEW a \in BOOLEAN, Register(w, n, a)
  PROVE  \E s : Registered(w, n, a, s)
<1>0. table[Leader] \in Table
  BY NodeFacts DEF Types
<1>1. CASE NodeInCluster(table[Leader], n) \/ FreeSlots(table[Leader]) = {}
  <2> DEFINE s == [pc |-> "list", node |-> n, slot |-> 0, answers |-> a]
  <2>1. worker' = [worker EXCEPT ![w] = s]
    BY <1>1 DEF Register
  <2>2. s \in WorkerState /\ s.node = n /\ s.answers = a /\ s.pc = "list"
    BY NodeFacts DEF WorkerState
  <2> HIDE DEF s
  <2>3. Registered(w, n, a, s)
    BY <1>1, <2>1, <2>2 DEF Registered
  <2> QED
    BY <2>3
<1>2. CASE ~ (NodeInCluster(table[Leader], n) \/ FreeSlots(table[Leader]) = {})
  <2> DEFINE s == [pc |-> "write", node |-> n, slot |-> First(FreeSlots(table[Leader])), answers |-> a]
  <2>1. worker' = [worker EXCEPT ![w] = s]
    BY <1>2 DEF Register
  <2>2. First(FreeSlots(table[Leader])) \in Slot
    BY <1>0, <1>2, FreeSlotType
  <2>3. /\ s \in WorkerState /\ s.node = n /\ s.answers = a /\ s.pc = "write"
        /\ s.slot = First(FreeSlots(table[Leader]))
    BY <2>2 DEF WorkerState
  <2> HIDE DEF s
  <2>4. Registered(w, n, a, s)
    BY <1>2, <2>1, <2>3 DEF Registered
  <2> QED
    BY <2>4
<1> QED
  BY <1>1, <1>2

LEMMA EvictedType ==
  ASSUME NEW t \in Table, NEW m
  PROVE  /\ ClearSlots(t, SlotToRemove(t, m)) \in Table
         /\ \A i \in Slot : \/ ClearSlots(t, SlotToRemove(t, m))[i] = t[i]
                            \/ t[i] = m /\ ClearSlots(t, SlotToRemove(t, m))[i] = NoNode
  BY ClearSlotsType, SlotToRemoveType

-----------------------------------------------------------------------------
LEMMA TypesInit == Init => Types /\ Abandoned
<1> SUFFICES ASSUME Init PROVE Types /\ Abandoned
  OBVIOUS
<1>1. table \in [Node -> Table]
  BY NewTableType DEF Init
<1>2. socket \in [Joiner -> Seq(Listing)]
  BY EmptySeq DEF Init
<1>3. worker \in [Worker -> WorkerState] /\ \A w \in Worker : worker[w] = Idle
  BY IdleFacts DEF Init
<1>4. Types
  BY <1>1, <1>2, <1>3, BoundAssumption DEF Init, Types
<1>5. Abandoned
  <2>1. \A w \in Worker : /\ worker[w].pc = "idle" <=> worker[w].node = NoNode
                          /\ worker[w].answers => worker[w].node \in up
    BY <1>3, IdleFacts
  <2>2. \A n \in Joiner : n \in up
    BY NodeFacts DEF Init
  <2> QED
    BY <2>1, <2>2 DEF Abandoned
<1> QED
  BY <1>4, <1>5

(* The steps of the program that joins.                                    *)
LEMMA TypesJoin ==
  ASSUME Types, Abandoned, NEW n \in Joiner, JoinStep(n)
  PROVE  Types' /\ Abandoned'
<1> USE DEF join_vars, history
<1>0. n \in Node /\ table[n] \in Table
  BY NodeFacts DEF Types
<1>1. CASE JoinCluster(n)
  <2>1. table' \in [Node -> Table]
    BY <1>0, <1>1, AddNodeType, NodeFacts DEF JoinCluster, Types
  <2>2. main' \in [Joiner -> {"idle", "call", "get"}] /\ joins' \in 0 .. MaxJoins
    BY <1>1, BoundAssumption DEF JoinCluster, Types
  <2>3. Types'
    BY <1>1, <2>1, <2>2 DEF JoinCluster, Types
  <2>4. Abandoned'
    BY <1>1 DEF JoinCluster, Types, Abandoned
  <2> QED
    BY <2>3, <2>4
<1>2. CASE CallLeader(n)
  <2>1. Types'
    BY <1>2 DEF CallLeader, Types
  <2>2. Abandoned'
    BY <1>2 DEF CallLeader, Types, Abandoned
  <2> QED
    BY <2>1, <2>2
<1>3. CASE LeaderNotFound(n)
  <2>1. Types'
    BY <1>3 DEF LeaderNotFound, Types
  <2>2. Abandoned'
    BY <1>3 DEF LeaderNotFound, Types, Abandoned
  <2> QED
    BY <2>1, <2>2
<1>4. CASE GetTimesOut(n)
  <2>1. Types'
    BY <1>4 DEF GetTimesOut, Types
  <2>2. Abandoned'
    BY <1>4 DEF GetTimesOut, Types, Abandoned
  <2> QED
    BY <2>1, <2>2
<1>5. CASE GetNodeList(n)
  <2>1. socket[n] \in Seq(Listing) /\ socket[n] # <<>>
    BY <1>5 DEF GetNodeList, Types
  <2>2. Head(socket[n]) \in Listing /\ Tail(socket[n]) \in Seq(Listing)
    BY <2>1, HeadTailProperties
  <2>3. table' \in [Node -> Table]
    BY <1>0, <1>5, <2>2, MergeType DEF GetNodeList, Types
  <2>4. socket' \in [Joiner -> Seq(Listing)]
    BY <1>5, <2>2 DEF GetNodeList, Types
  <2>5. Types'
    BY <1>5, <2>3, <2>4 DEF GetNodeList, Types
  <2>6. Abandoned'
    BY <1>5 DEF GetNodeList, Types, Abandoned
  <2> QED
    BY <2>5, <2>6
<1> QED
  BY <1>1, <1>2, <1>3, <1>4, <1>5 DEF JoinStep

LEMMA TypesRegister ==
  ASSUME Types, Abandoned, NEW w \in Worker, NEW n \in Joiner, TakeRequest(w, n) \/ TakeOrphan(w, n)
  PROVE  Types' /\ Abandoned'
<1> USE DEF join_vars, history
<1>1. CASE TakeRequest(w, n)
  <2>1. PICK s : Registered(w, n, TRUE, s)
    BY <1>1, RegisterFacts DEF TakeRequest
  <2>2. worker' = [worker EXCEPT ![w] = s] /\ s \in WorkerState /\ s.node = n /\ s.pc # "idle"
    BY <2>1 DEF Registered
  <2>3. worker' \in [Worker -> WorkerState] /\ asked' \in [Joiner -> Nat]
    BY <1>1, <2>2 DEF TakeRequest, Types
  <2>4. Types'
    BY <1>1, <2>3 DEF TakeRequest, Register, Types
  <2>5. n \in up
    BY <1>1 DEF TakeRequest, Abandoned
  <2>6. Abandoned'
    BY <1>1, <2>2, <2>5, NodeFacts DEF TakeRequest, Register, Types, Abandoned
  <2> QED
    BY <2>4, <2>6
<1>2. CASE TakeOrphan(w, n)
  <2>1. PICK s : Registered(w, n, FALSE, s)
    BY <1>2, RegisterFacts DEF TakeOrphan
  <2>2. /\ worker' = [worker EXCEPT ![w] = s] /\ s \in WorkerState
        /\ s.node = n /\ s.pc # "idle" /\ s.answers = FALSE
    BY <2>1 DEF Registered
  <2>3. worker' \in [Worker -> WorkerState] /\ orphans' \in [Joiner -> Nat]
    BY <1>2, <2>2 DEF TakeOrphan, Types
  <2>4. Types'
    BY <1>2, <2>3 DEF TakeOrphan, Register, Types
  <2>5. Abandoned'
    BY <1>2, <2>2, NodeFacts DEF TakeOrphan, Register, Types, Abandoned
  <2> QED
    BY <2>4, <2>5
<1> QED
  BY <1>1, <1>2

(* What a worker is after its assignment; its node stays.                  *)
LEMMA WrittenFacts ==
  ASSUME Types, NEW w \in Worker, WriteSlot(w)
  PROVE  \E s \in WorkerState :
           /\ worker' = [worker EXCEPT ![w] = s]
           /\ s.pc = "list" /\ s.node = worker[w].node /\ s.answers = worker[w].answers
<1> DEFINE s == [worker[w] EXCEPT !.pc = "list", !.slot = 0]
<1>1. worker[w] \in WorkerState
  BY DEF Types
<1>2. /\ s \in WorkerState
      /\ s.pc = "list" /\ s.node = worker[w].node /\ s.answers = worker[w].answers
  BY <1>1, NodeFacts DEF WorkerState
<1>3. worker' = [worker EXCEPT ![w] = s]
  BY DEF WriteSlot, Types
<1> HIDE DEF s
<1> QED
  BY <1>2, <1>3

LEMMA TypesWorker ==
  ASSUME Types, Abandoned, NEW w \in Worker, WriteSlot(w) \/ Reply(w)
  PROVE  Types' /\ Abandoned'
<1> USE DEF join_vars, history
<1>0. worker[w] \in WorkerState /\ table[Leader] \in Table
  BY NodeFacts DEF Types
<1>1. CASE WriteSlot(w)
  <2>1. worker[w].node \in Node /\ worker[w].slot \in Slot
    BY <1>0, <1>1, NodeFacts DEF WriteSlot, Abandoned, WorkerState
  <2>2. table' \in [Node -> Table]
    BY <1>0, <1>1, <2>1, AddNodeAtType, NodeFacts DEF WriteSlot, Types
  <2>3. PICK s \in WorkerState :
          /\ worker' = [worker EXCEPT ![w] = s]
          /\ s.pc = "list" /\ s.node = worker[w].node /\ s.answers = worker[w].answers
    BY <1>1, WrittenFacts
  <2>4. worker' \in [Worker -> WorkerState]
    BY <2>3 DEF Types
  <2>5. Types'
    BY <1>1, <2>2, <2>4 DEF WriteSlot, Types
  <2>6. Abandoned'
    BY <1>1, <2>1, <2>3, NodeFacts DEF WriteSlot, Types, Abandoned
  <2> QED
    BY <2>5, <2>6
<1>2. CASE Reply(w)
  <2>1. worker[w].node \in Joiner
    BY <1>0, <1>2 DEF Reply, Abandoned, WorkerState
  <2>2. GetNodesWithIdxInCluster(table[Leader]) \in Listing
    BY <1>0, ListingType
  <2>3. socket' \in [Joiner -> Seq(Listing)]
    BY <1>2, <2>1, <2>2 DEF Reply, Types
  <2>4. worker' \in [Worker -> WorkerState]
    BY <1>2, IdleFacts DEF Reply, Types
  <2>5. Types'
    BY <1>2, <2>3, <2>4 DEF Reply, Types
  <2>6. Abandoned'
    <3>1. \A n \in Joiner : n \notin up => socket'[n] = <<>>
      BY <1>2, <2>1 DEF Reply, Types, Abandoned
    <3>2. \A u \in Worker : /\ worker'[u].pc = "idle" <=> worker'[u].node = NoNode
                            /\ worker'[u].answers => worker'[u].node \in up
      BY <1>2, IdleFacts DEF Reply, Types, Abandoned
    <3> QED
      BY <1>2, <3>1, <3>2 DEF Reply, Abandoned
  <2> QED
    BY <2>5, <2>6
<1> QED
  BY <1>1, <1>2

LEMMA TypesEvict ==
  ASSUME Types, Abandoned, NEW n \in Node, NEW m \in Node, Evict(n, m)
  PROVE  Types' /\ Abandoned'
<1> USE DEF join_vars
<1>1. table' \in [Node -> Table]
  BY EvictedType DEF Evict, Types
<1>2. faults' \in 0 .. MaxFaults
  BY BoundAssumption DEF Evict, Fault, Types
<1>3. Types'
  BY <1>1, <1>2 DEF Evict, Types
<1>4. Abandoned'
  BY DEF Evict, Abandoned
<1> QED
  BY <1>3, <1>4

(* A worker that runs for a process that crashes will not answer.          *)
LEMMA DeafFacts ==
  ASSUME NEW s \in WorkerState
  PROVE  /\ [s EXCEPT !.answers = FALSE] \in WorkerState
         /\ [s EXCEPT !.answers = FALSE].answers = FALSE
         /\ [s EXCEPT !.answers = FALSE].pc = s.pc
         /\ [s EXCEPT !.answers = FALSE].node = s.node
         /\ [s EXCEPT !.answers = FALSE].slot = s.slot
  BY DEF WorkerState

LEMMA DeafWorkers ==
  ASSUME Types, NEW n \in Joiner, CrashJoiner(n)
  PROVE  /\ worker' \in [Worker -> WorkerState]
         /\ \A w \in Worker :
              /\ worker'[w].pc = worker[w].pc /\ worker'[w].node = worker[w].node
              /\ worker'[w].slot = worker[w].slot
              /\ worker'[w].answers = (worker[w].answers /\ worker[w].node # n)
<1>1. ASSUME NEW w \in Worker
      PROVE  /\ worker'[w] \in WorkerState
             /\ worker'[w].pc = worker[w].pc /\ worker'[w].node = worker[w].node
             /\ worker'[w].slot = worker[w].slot
             /\ worker'[w].answers = (worker[w].answers /\ worker[w].node # n)
  <2>1. worker[w] \in WorkerState
    BY DEF Types
  <2>2. CASE worker[w].node = n
    <3>1. worker'[w] = [worker[w] EXCEPT !.answers = FALSE]
      BY <2>2 DEF CrashJoiner
    <3> QED
      BY <2>1, <2>2, <3>1, DeafFacts
  <2>3. CASE worker[w].node # n
    <3>1. worker'[w] = worker[w]
      BY <2>3 DEF CrashJoiner
    <3>2. worker[w].answers \in BOOLEAN
      BY <2>1 DEF WorkerState
    <3> QED
      BY <2>1, <2>3, <3>1, <3>2
  <2> QED
    BY <2>2, <2>3
<1>2. worker' = [w \in Worker |-> worker'[w]]
  BY DEF CrashJoiner
<1> QED
  BY <1>1, <1>2

LEMMA TypesEnvironment ==
  ASSUME Types, Abandoned, Environment
  PROVE  Types' /\ Abandoned'
<1> USE DEF join_vars, history
<1>1. ASSUME NEW n \in Joiner, LoseReply(n)
      PROVE  Types' /\ Abandoned'
  <2>1. Tail(socket[n]) \in Seq(Listing)
    BY <1>1, HeadTailProperties DEF LoseReply, Types
  <2>2. socket' \in [Joiner -> Seq(Listing)]
    BY <1>1, <2>1 DEF LoseReply, Types
  <2>3. Types'
    BY <1>1, <2>2 DEF LoseReply, Types
  <2>4. Abandoned'
    BY <1>1 DEF LoseReply, Types, Abandoned
  <2> QED
    BY <2>3, <2>4
<1>2. ASSUME NEW n \in Joiner, CrashJoiner(n)
      PROVE  Types' /\ Abandoned'
  <2>1. socket' \in [Joiner -> Seq(Listing)] /\ socket'[n] = <<>>
    BY <1>2, EmptySeq DEF CrashJoiner, Types
  <2>2. orphans' \in [Joiner -> Nat]
    <3>1. PICK k \in 0 .. asked[n] : orphans' = [orphans EXCEPT ![n] = @ + k]
      BY <1>2 DEF CrashJoiner
    <3>2. k \in Nat
      BY DEF Types
    <3> QED
      BY <3>1, <3>2 DEF Types
  <2>3. asked' \in [Joiner -> Nat] /\ main' \in [Joiner -> {"idle", "call", "get"}]
        /\ faults' \in 0 .. MaxFaults
    BY <1>2, BoundAssumption DEF CrashJoiner, Fault, Types
  <2>4. Types'
    BY <1>2, <2>1, <2>2, <2>3, DeafWorkers DEF CrashJoiner, Types
  <2>5. \A m \in Joiner : m \notin up' => main'[m] = "idle" /\ asked'[m] = 0 /\ socket'[m] = <<>>
    BY <1>2 DEF CrashJoiner, Types, Abandoned
  <2>6. \A w \in Worker : /\ worker'[w].pc = "idle" <=> worker'[w].node = NoNode
                          /\ worker'[w].answers => worker'[w].node \in up'
    BY <1>2, DeafWorkers DEF CrashJoiner, Abandoned
  <2> QED
    BY <2>4, <2>5, <2>6 DEF Abandoned
<1>3. CASE CrashLeader
  <2>1. worker' \in [Worker -> WorkerState] /\ \A w \in Worker : worker'[w] = Idle
    BY <1>3, IdleFacts DEF CrashLeader
  <2>2. faults' \in 0 .. MaxFaults
    BY <1>3, BoundAssumption DEF CrashLeader, Fault, Types
  <2>3. Types'
    BY <1>3, <2>1, <2>2, NodeFacts DEF CrashLeader, Types
  <2>4. Abandoned'
    BY <1>3, <2>1, IdleFacts, NodeFacts DEF CrashLeader, Abandoned
  <2> QED
    BY <2>3, <2>4
<1>4. ASSUME NEW n \in Node, Restart(n)
      PROVE  Types' /\ Abandoned'
  <2>1. table' \in [Node -> Table]
    BY <1>4, NewTableType DEF Restart, Types
  <2>2. Types'
    BY <1>4, <2>1 DEF Restart, Types
  <2>3. Abandoned'
    BY <1>4 DEF Restart, Abandoned
  <2> QED
    BY <2>2, <2>3
<1> QED
  BY <1>1, <1>2, <1>3, <1>4 DEF Environment

LEMMA TypesStep ==
  ASSUME Types, Abandoned, [Next]_vars
  PROVE  Types' /\ Abandoned'
<1>1. ASSUME NEW n \in Node, Run(n)
      PROVE  Types' /\ Abandoned'
  BY <1>1 DEF Run, Types, Abandoned, join_vars, history
<1>2. ASSUME NEW w \in Worker, WorkerStep(w)
      PROVE  Types' /\ Abandoned'
  BY <1>2, TypesRegister, TypesWorker DEF WorkerStep
<1>3. CASE UNCHANGED vars
  BY <1>3 DEF vars, join_vars, history, Types, Abandoned
<1> QED
  BY <1>1, <1>2, <1>3, TypesJoin, TypesEvict, TypesEnvironment DEF Next

LEMMA TypesAlways == Spec => [](Types /\ Abandoned)
<1>1. Types /\ Abandoned /\ [Next]_vars => (Types /\ Abandoned)'
  BY TypesStep
<1> QED
  BY TypesInit, <1>1, PTL DEF Spec

-----------------------------------------------------------------------------
(* No request is answered twice: what is on its way for a joiner, as a     *)
(* request, at a worker or as a list, never exceeds the calls so far, and  *)
(* a call that has not sent its request yet leaves room for it.            *)
Sent(n) == asked[n] + Cardinality(Answering(n)) + Len(socket[n])

Counted(n) ==
  /\ IsFiniteSet(Answering(n))
  /\ Sent(n) <= joins
  /\ main[n] = "call" => Sent(n) < joins

Counts == \A n \in Joiner : Counted(n)

LEMMA SentType ==
  ASSUME Types, NEW n \in Joiner, IsFiniteSet(Answering(n))
  PROVE  /\ asked[n] \in Nat /\ Cardinality(Answering(n)) \in Nat
         /\ Len(socket[n]) \in Nat /\ joins \in Nat
         /\ Sent(n) = asked[n] + Cardinality(Answering(n)) + Len(socket[n])
  BY FS_CardinalityType, LenProperties DEF Types, Sent

LEMMA SumMonotone ==
  ASSUME NEW a \in Nat, NEW b \in Nat, NEW c \in Nat,
         NEW x \in Nat, NEW y \in Nat, NEW z \in Nat, a <= x, b <= y, c <= z
  PROVE  a + b + c <= x + y + z
  OBVIOUS

LEMMA SumMoves ==
  ASSUME NEW a \in Nat, NEW b \in Nat, NEW c \in Nat
  PROVE  /\ (a + 1) + b + c = (a + b + c) + 1
         /\ (a - 1) + (b + 1) + c = a + b + c
         /\ a + (b - 1) + (c + 1) = a + b + c
  OBVIOUS

(* How one worker's next state changes who is being answered.              *)
LEMMA AnsweringUpdate ==
  ASSUME Types, NEW w \in Worker, NEW s, worker' = [worker EXCEPT ![w] = s], NEW n \in Joiner
  PROVE  /\ s.node = n /\ s.answers => Answering(n)' = Answering(n) \cup {w}
         /\ ~ (s.node = n /\ s.answers) => Answering(n)' = Answering(n) \ {w}
  BY DEF Answering, Types

(* A joiner whose requests and lists did not grow, and who did not begin   *)
(* another call, is counted as before.                                     *)
LEMMA CountedLess ==
  ASSUME Types, Types', NEW n \in Joiner, Counted(n),
         Answering(n)' \subseteq Answering(n),
         asked'[n] <= asked[n], Len(socket'[n]) <= Len(socket[n]), joins' >= joins,
         main'[n] = "call" => main[n] = "call"
  PROVE  Counted(n)'
<1>1. IsFiniteSet(Answering(n)') /\ Cardinality(Answering(n)') <= Cardinality(Answering(n))
  BY FS_Subset DEF Counted
<1>2. /\ asked[n] \in Nat /\ Cardinality(Answering(n)) \in Nat /\ Len(socket[n]) \in Nat
      /\ joins \in Nat /\ Sent(n) = asked[n] + Cardinality(Answering(n)) + Len(socket[n])
  BY SentType DEF Counted
<1>3. /\ asked'[n] \in Nat /\ Cardinality(Answering(n)') \in Nat /\ Len(socket'[n]) \in Nat
      /\ joins' \in Nat
  BY <1>1, FS_CardinalityType, LenProperties DEF Types
<1>4. Sent(n)' = asked'[n] + Cardinality(Answering(n)') + Len(socket'[n])
  BY DEF Sent
<1>5. Sent(n)' <= Sent(n)
  <2>1. asked'[n] + Cardinality(Answering(n)') + Len(socket'[n])
          <= asked[n] + Cardinality(Answering(n)) + Len(socket[n])
    BY <1>1, <1>2, <1>3, SumMonotone, Zenon
  <2> QED
    BY <1>2, <1>4, <2>1, Zenon
<1>6. Sent(n) \in Nat
  BY <1>2
<1>7. Sent(n)' \in Nat
  BY <1>3, <1>4
<1> QED
  BY <1>1, <1>2, <1>3, <1>5, <1>6, <1>7 DEF Counted

LEMMA CountsInit == Init => Counts
<1> SUFFICES ASSUME Init, NEW n \in Joiner PROVE Counted(n)
  BY DEF Counts
<1>1. Answering(n) = {}
  BY NodeFacts, IdleFacts DEF Init, Answering
<1>2. asked[n] = 0 /\ Len(socket[n]) = 0 /\ joins = 0 /\ main[n] = "idle"
  BY EmptySeq DEF Init
<1> QED
  BY <1>1, <1>2, FS_EmptySet DEF Counted, Sent

LEMMA CountsJoin ==
  ASSUME Types, Types', Counts, NEW n \in Joiner, JoinStep(n)
  PROVE  Counts'
<1> USE DEF join_vars, history
<1> SUFFICES ASSUME NEW m \in Joiner PROVE Counted(m)'
  BY DEF Counts
<1>0. Answering(m)' = Answering(m)
  BY DEF JoinStep, JoinCluster, CallLeader, LeaderNotFound, GetNodeList, GetTimesOut, Answering
<1>1. Counted(m)
  BY DEF Counts
<1>2. /\ asked[m] \in Nat /\ Cardinality(Answering(m)) \in Nat /\ Len(socket[m]) \in Nat
      /\ joins \in Nat /\ Sent(m) = asked[m] + Cardinality(Answering(m)) + Len(socket[m])
  BY <1>1, SentType DEF Counted
<1>3. Sent(m)' = asked'[m] + Cardinality(Answering(m)') + Len(socket'[m])
  BY DEF Sent
<1>4. CASE JoinCluster(n)
  <2>1. joins' = joins + 1 /\ UNCHANGED <<asked, socket>>
    BY <1>4 DEF JoinCluster
  <2>2. Sent(m)' = Sent(m)
    BY <1>0, <1>2, <1>3, <2>1
  <2> QED
    BY <1>0, <1>1, <1>2, <2>1, <2>2 DEF Counted
<1>5. CASE CallLeader(n)
  <2>1. CASE m = n
    <3>1. asked'[m] = asked[m] + 1 /\ main[m] = "call" /\ main'[m] = "get" /\ UNCHANGED <<socket, joins>>
      BY <1>5, <2>1 DEF CallLeader, Types
    <3>2. Sent(m)' = Sent(m) + 1
      <4>1. Sent(m)' = (asked[m] + 1) + Cardinality(Answering(m)) + Len(socket[m])
        BY <1>0, <1>3, <3>1, Zenon
      <4>2. (asked[m] + 1) + Cardinality(Answering(m)) + Len(socket[m]) = Sent(m) + 1
        BY <1>2, SumMoves
      <4> QED
        BY <4>1, <4>2, Zenon
    <3> QED
      BY <1>0, <1>1, <1>2, <3>1, <3>2 DEF Counted
  <2>2. CASE m # n
    <3>1. UNCHANGED <<joins, socket>> /\ asked'[m] = asked[m] /\ main'[m] = main[m]
      BY <1>5, <2>2 DEF CallLeader, Types
    <3> QED
      BY <1>0, <1>1, <1>2, <3>1, CountedLess
  <2> QED
    BY <2>1, <2>2
<1>6. CASE LeaderNotFound(n) \/ GetTimesOut(n)
  <2>1. UNCHANGED <<joins, socket, asked>> /\ (main'[m] = "call" => main[m] = "call")
    BY <1>6 DEF LeaderNotFound, GetTimesOut, Types
  <2> QED
    BY <1>0, <1>1, <1>2, <2>1, CountedLess
<1>7. CASE GetNodeList(n)
  <2>1. Len(socket'[m]) <= Len(socket[m])
    <3>1. socket[n] \in Seq(Listing) /\ socket[n] # <<>>
      BY <1>7 DEF GetNodeList, Types
    <3>2. Len(Tail(socket[n])) = Len(socket[n]) - 1 /\ Len(socket[n]) \in Nat
      BY <3>1, HeadTailProperties, LenProperties
    <3> QED
      BY <1>2, <1>7, <3>2 DEF GetNodeList, Types
  <2>2. UNCHANGED <<asked, joins>> /\ (main'[m] = "call" => main[m] = "call")
    BY <1>7 DEF GetNodeList, Types
  <2> QED
    BY <1>0, <1>1, <1>2, <2>1, <2>2, CountedLess
<1> QED
  BY <1>4, <1>5, <1>6, <1>7 DEF JoinStep

LEMMA CountsWorker ==
  ASSUME Types, Types', Abandoned, Counts, NEW w \in Worker, WorkerStep(w)
  PROVE  Counts'
<1> USE DEF join_vars, history
<1> SUFFICES ASSUME NEW m \in Joiner PROVE Counted(m)'
  BY DEF Counts
<1>1. Counted(m)
  BY DEF Counts
<1>2. /\ asked[m] \in Nat /\ Cardinality(Answering(m)) \in Nat /\ Len(socket[m]) \in Nat
      /\ joins \in Nat /\ Sent(m) = asked[m] + Cardinality(Answering(m)) + Len(socket[m])
  BY <1>1, SentType DEF Counted
<1>3. Sent(m)' = asked'[m] + Cardinality(Answering(m)') + Len(socket'[m])
  BY DEF Sent
<1>4. worker[w].pc = "idle" => w \notin Answering(m)
  BY NodeFacts DEF Abandoned, Answering
<1>5. ASSUME NEW n \in Joiner, TakeRequest(w, n)
      PROVE  Counted(m)'
  <2>1. PICK s : Registered(w, n, TRUE, s)
    BY <1>5, RegisterFacts DEF TakeRequest
  <2>2. worker' = [worker EXCEPT ![w] = s] /\ s.node = n /\ s.answers
    BY <2>1 DEF Registered
  <2>3. worker[w].pc = "idle" /\ UNCHANGED <<main, joins, socket>>
    BY <1>5 DEF TakeRequest, Register
  <2>4. CASE m = n
    <3>1. Answering(m)' = Answering(m) \cup {w}
      BY <2>2, <2>4, AnsweringUpdate
    <3>2. /\ IsFiniteSet(Answering(m)')
          /\ Cardinality(Answering(m)') = Cardinality(Answering(m)) + 1
      BY <1>1, <1>4, <2>3, <3>1, FS_AddElement DEF Counted
    <3>3. asked'[m] = asked[m] - 1
      BY <1>5, <2>4 DEF TakeRequest, Types
    <3>4. Sent(m)' = Sent(m)
      <4>1. Sent(m)' = (asked[m] - 1) + (Cardinality(Answering(m)) + 1) + Len(socket[m])
        BY <1>3, <2>3, <3>2, <3>3, Zenon
      <4>2. (asked[m] - 1) + (Cardinality(Answering(m)) + 1) + Len(socket[m]) = Sent(m)
        BY <1>2, SumMoves
      <4> QED
        BY <4>1, <4>2, Zenon
    <3> QED
      BY <1>1, <2>3, <3>2, <3>4 DEF Counted
  <2>5. CASE m # n
    <3>1. Answering(m)' \subseteq Answering(m)
      <4>1. Answering(m)' = Answering(m) \ {w}
        BY <2>2, <2>5, AnsweringUpdate, Zenon
      <4> QED
        BY <4>1
    <3>2. asked'[m] = asked[m]
      BY <1>5, <2>5 DEF TakeRequest, Types
    <3> QED
      BY <1>1, <1>2, <2>3, <3>1, <3>2, CountedLess
  <2> QED
    BY <2>4, <2>5
<1>6. ASSUME NEW n \in Joiner, TakeOrphan(w, n)
      PROVE  Counted(m)'
  <2>1. PICK s : Registered(w, n, FALSE, s)
    BY <1>6, RegisterFacts DEF TakeOrphan
  <2>2. worker' = [worker EXCEPT ![w] = s] /\ ~ s.answers
    BY <2>1 DEF Registered
  <2>3. UNCHANGED <<main, joins, socket, asked>>
    BY <1>6 DEF TakeOrphan, Register
  <2>4. Answering(m)' \subseteq Answering(m)
    <3>1. ~ (s.node = m /\ s.answers)
      BY <2>2
    <3>2. Answering(m)' = Answering(m) \ {w}
      BY <2>2, <3>1, AnsweringUpdate, Zenon
    <3> QED
      BY <3>2
  <2> QED
    BY <1>1, <1>2, <2>3, <2>4, CountedLess
<1>7. CASE WriteSlot(w)
  <2>1. PICK s \in WorkerState :
          /\ worker' = [worker EXCEPT ![w] = s]
          /\ s.pc = "list" /\ s.node = worker[w].node /\ s.answers = worker[w].answers
    BY <1>7, WrittenFacts
  <2>2. Answering(m)' \subseteq Answering(m)
    BY <2>1, AnsweringUpdate DEF Answering
  <2>3. UNCHANGED <<main, joins, socket, asked>>
    BY <1>7 DEF WriteSlot
  <2> QED
    BY <1>1, <1>2, <2>2, <2>3, CountedLess
<1>8. CASE Reply(w)
  <2>1. worker' = [worker EXCEPT ![w] = Idle] /\ UNCHANGED <<main, joins, asked>>
    BY <1>8 DEF Reply
  <2>2. Answering(m)' = Answering(m) \ {w}
    BY <2>1, AnsweringUpdate, IdleFacts, NodeFacts
  <2>3. CASE worker[w].answers /\ worker[w].node = m
    <3>1. socket'[m] = Append(socket[m], GetNodesWithIdxInCluster(table[Leader]))
      BY <1>8, <2>3 DEF Reply, Types
    <3>2. Len(socket'[m]) = Len(socket[m]) + 1
      <4>1. GetNodesWithIdxInCluster(table[Leader]) \in Listing /\ socket[m] \in Seq(Listing)
        BY ListingType, NodeFacts DEF Types
      <4> QED
        BY <3>1, <4>1
    <3>3. w \in Answering(m)
      BY <2>3 DEF Answering
    <3>4. /\ IsFiniteSet(Answering(m)')
          /\ Cardinality(Answering(m)') = Cardinality(Answering(m)) - 1
      BY <1>1, <2>2, <3>3, FS_RemoveElement DEF Counted
    <3>5. Sent(m)' = Sent(m)
      <4>1. Sent(m)' = asked[m] + (Cardinality(Answering(m)) - 1) + (Len(socket[m]) + 1)
        BY <1>3, <2>1, <3>2, <3>4, Zenon
      <4>2. asked[m] + (Cardinality(Answering(m)) - 1) + (Len(socket[m]) + 1)
              = asked[m] + Cardinality(Answering(m)) + Len(socket[m])
        <5> DEFINE a == asked[m]
                   b == Cardinality(Answering(m))
                   c == Len(socket[m])
        <5>1. a \in Nat /\ b \in Nat /\ c \in Nat
          BY <1>2
        <5> HIDE DEF a, b, c
        <5>2. a + (b - 1) + (c + 1) = a + b + c
          BY <5>1
        <5> QED
          BY <5>2 DEF a, b, c
      <4> QED
        BY <1>2, <4>1, <4>2, Zenon
    <3> QED
      BY <1>1, <2>1, <3>4, <3>5 DEF Counted
  <2>4. CASE ~ (worker[w].answers /\ worker[w].node = m)
    <3>1. socket'[m] = socket[m]
      BY <1>8, <2>4 DEF Reply, Types
    <3> QED
      BY <1>1, <1>2, <2>1, <2>2, <3>1, CountedLess
  <2> QED
    BY <2>3, <2>4
<1> QED
  BY <1>5, <1>6, <1>7, <1>8 DEF WorkerStep

LEMMA CountsOther ==
  ASSUME Types, Types', Counts,
         \/ Environment \/ UNCHANGED vars
         \/ \E n \in Node : Run(n) \/ \E m \in Node : Evict(n, m)
  PROVE  Counts'
<1> USE DEF join_vars, history
<1> SUFFICES ASSUME NEW m \in Joiner PROVE Counted(m)'
  BY DEF Counts
<1>1. Counted(m)
  BY DEF Counts
<1>2. asked[m] \in Nat /\ Len(socket[m]) \in Nat /\ joins \in Nat
  BY <1>1, SentType DEF Counted
<1>3. ASSUME NEW n \in Joiner, LoseReply(n)
      PROVE  Counted(m)'
  <2>1. Len(socket'[m]) <= Len(socket[m])
    <3>1. socket[n] \in Seq(Listing) /\ socket[n] # <<>>
      BY <1>3 DEF LoseReply, Types
    <3>2. Len(Tail(socket[n])) = Len(socket[n]) - 1 /\ Len(socket[n]) \in Nat
      BY <3>1, HeadTailProperties, LenProperties
    <3> QED
      BY <1>2, <1>3, <3>2 DEF LoseReply, Types
  <2>2. UNCHANGED <<asked, joins, main, worker>>
    BY <1>3 DEF LoseReply
  <2> QED
    BY <1>1, <1>2, <2>1, <2>2, CountedLess DEF Answering
<1>4. ASSUME NEW n \in Joiner, CrashJoiner(n)
      PROVE  Counted(m)'
  <2>1. Answering(m)' \subseteq Answering(m)
    BY <1>4, DeafWorkers DEF Answering
  <2>2. asked'[m] <= asked[m] /\ joins' = joins /\ (main'[m] = "call" => main[m] = "call")
    BY <1>2, <1>4 DEF CrashJoiner, Types
  <2>3. Len(socket'[m]) <= Len(socket[m])
    BY <1>2, <1>4, EmptySeq DEF CrashJoiner, Types
  <2> QED
    BY <1>1, <1>2, <2>1, <2>2, <2>3, CountedLess
<1>5. CASE CrashLeader
  <2>1. Answering(m)' \subseteq Answering(m)
    BY <1>5, NodeFacts, IdleFacts DEF CrashLeader, Answering
  <2>2. UNCHANGED <<asked, joins, main, socket>>
    BY <1>5 DEF CrashLeader
  <2> QED
    BY <1>1, <1>2, <2>1, <2>2, CountedLess
<1>6. CASE \/ UNCHANGED vars \/ \E n \in Node : Restart(n)
           \/ \E n \in Node : Run(n) \/ \E k \in Node : Evict(n, k)
  <2>1. UNCHANGED <<asked, joins, main, socket, worker>>
    BY <1>6 DEF Restart, Run, Evict, vars
  <2> QED
    BY <1>1, <1>2, <2>1, CountedLess DEF Answering
<1> QED
  BY <1>3, <1>4, <1>5, <1>6 DEF Environment

(* Type correctness: the tables keep members only, nothing is on its way   *)
(* to a process that is down, and the leader sends a joiner at most one    *)
(* list per call of JoinCluster (Cluster.cpp:23-46, IMQNode.cpp:14-45).    *)
THEOREM TypeCorrect == Spec => []TypeOK
<1>1. Types /\ Abandoned /\ Counts /\ [Next]_vars => Counts'
  <2> SUFFICES ASSUME Types, Abandoned, Counts, [Next]_vars PROVE Counts'
    OBVIOUS
  <2>1. Types'
    BY TypesStep
  <2> QED
    BY <2>1, CountsJoin, CountsWorker, CountsOther DEF Next
<1>2. Types /\ Abandoned /\ Counts => TypeOK
  <2> SUFFICES ASSUME Types, Abandoned, Counts PROVE TypeOK
    OBVIOUS
  <2>1. ASSUME NEW n \in Joiner
        PROVE  /\ \A k \in DOMAIN socket[n] : socket[n][k] \in Listing
               /\ asked[n] \in Nat
               /\ asked[n] + Cardinality(Answering(n)) + Len(socket[n]) <= joins
    BY LenProperties DEF Types, Counts, Counted, Sent
  <2> QED
    BY <2>1 DEF Types, Abandoned, TypeOK, WorkerState
<1> QED
  BY TypesAlways, CountsInit, <1>1, <1>2, PTL DEF Spec

-----------------------------------------------------------------------------
(* The inductive invariant behind SlotsAgree and JoinedIsMember, for as    *)
(* long as "causes" is empty.  The leader's table is filled from slot 0 up *)
(* and never changes an entry.                                             *)
LeaderOrder ==
  /\ table[Leader][0] = Leader
  /\ \A i, j \in Slot : i < j /\ table[Leader][j] # NoNode => table[Leader][i] # NoNode

(* At most one worker is about to write, to the slot that comes next.      *)
Writers ==
  \A w \in Worker : worker[w].pc = "write" =>
    /\ table[Leader][worker[w].slot] = NoNode
    /\ \A i \in Slot : i < worker[w].slot => table[Leader][i] # NoNode
    /\ \A u \in Worker : worker[u].pc = "write" => u = w

InLeader(n) == NodeInCluster(table[Leader], n) \/ FreeSlots(table[Leader]) = {}

(* Who is about to be listed is a member, if the leader had room.          *)
Listed == \A w \in Worker : worker[w].pc = "list" => InLeader(worker[w].node)

(* A list agrees with the leader, has at least its first two slots, and    *)
(* has the joiner that it is for, if the leader had room.                  *)
ListFor(n, l) ==
  /\ \A i \in DOMAIN l : l[i] = table[Leader][i]
  /\ \A i \in Slot : i <= 1 => i \in DOMAIN l
  /\ (\E i \in DOMAIN l : l[i] = n) \/ DOMAIN l = Slot

Lists == \A n \in Joiner : \A k \in DOMAIN socket[n] : ListFor(n, socket[n][k])

(* A joiner that has merged nothing yet has itself in slot 0 and at most   *)
(* the leader besides, in slot 1: the first list covers both.              *)
Fresh ==
  \A n \in (Joiner \cap up) \ joined :
    /\ table[n][0] = n
    /\ \A i \in Slot : /\ i = 1 => table[n][i] \in {NoNode, Leader}
                       /\ i > 1 => table[n][i] = NoNode

Agreed ==
  \A n \in joined, i \in Slot :
    table[n][i] = NoNode \/ table[n][i] = table[Leader][i]

Members ==
  \A n \in joined :
    \/ NodeInCluster(table[n], n) /\ NodeInCluster(table[Leader], n)
    \/ FreeSlots(table[Leader]) = {}

Agreement == LeaderOrder /\ Writers /\ Listed /\ Lists /\ Fresh /\ Agreed /\ Members

(* The steps that add nothing to "causes".                                 *)
JoinerEffect(n) ==
  \/ JoinCluster(n) \/ GetNodeList(n) \/ LoseReply(n) \/ CrashJoiner(n) \/ Restart(n)
  \/ \E m \in Node : Evict(n, m)

LoneRegister(w, n, answers) ==
  Register(w, n, answers) /\ \A u \in Worker : worker[u].pc # "write"

WorkerEffect(w) ==
  \/ \E n \in Joiner, answers \in BOOLEAN : LoneRegister(w, n, answers)
  \/ WriteSlot(w) \/ Reply(w)

Undisturbed ==
  \/ UNCHANGED <<up, table, socket, worker, joined>>
  \/ CrashLeader
  \/ \E n \in Joiner : JoinerEffect(n)
  \/ \E w \in Worker : WorkerEffect(w)

LEMMA CausesStay ==
  ASSUME [Next]_vars
  PROVE  causes \subseteq causes'
<1> USE DEF join_vars, history
<1>1. ASSUME NEW n \in Joiner, JoinStep(n)
      PROVE  causes \subseteq causes'
  BY <1>1 DEF JoinStep, JoinCluster, CallLeader, LeaderNotFound, GetNodeList, GetTimesOut
<1>2. ASSUME NEW w \in Worker, WorkerStep(w)
      PROVE  causes \subseteq causes'
  BY <1>2 DEF WorkerStep, TakeRequest, TakeOrphan, Register, WriteSlot, Reply
<1>3. CASE Environment
  BY <1>3 DEF Environment, LoseReply, CrashJoiner, CrashLeader, Restart
<1>4. CASE (\E n \in Node : Run(n)) \/ (\E n, m \in Node : Evict(n, m)) \/ UNCHANGED vars
  BY <1>4 DEF Run, Evict, vars
<1> QED
  BY <1>1, <1>2, <1>3, <1>4 DEF Next

LEMMA StepKinds ==
  ASSUME [Next]_vars, causes' = {}
  PROVE  Undisturbed
<1> USE DEF join_vars, history
<1>1. ASSUME NEW n \in Joiner, JoinStep(n)
      PROVE  Undisturbed
  BY <1>1 DEF JoinStep, CallLeader, LeaderNotFound, GetTimesOut, Undisturbed, JoinerEffect
<1>2. ASSUME NEW w \in Worker, WorkerStep(w)
      PROVE  Undisturbed
  <2>1. ASSUME NEW n \in Joiner, NEW a \in BOOLEAN, Register(w, n, a)
        PROVE  LoneRegister(w, n, a)
    BY <2>1 DEF Register, LoneRegister
  <2> QED
    BY <1>2, <2>1 DEF WorkerStep, TakeRequest, TakeOrphan, WorkerEffect, Undisturbed
<1>3. ASSUME NEW n \in Node, NEW m \in Node, Evict(n, m)
      PROVE  Undisturbed
  <2>1. n # Leader
    BY <1>3 DEF Evict
  <2> QED
    BY <1>3, <2>1, NodeFacts DEF Undisturbed, JoinerEffect
<1>4. ASSUME NEW n \in Node, Restart(n)
      PROVE  Undisturbed
  <2>1. n # Leader
    BY <1>4 DEF Restart
  <2> QED
    BY <1>4, <2>1, NodeFacts DEF Undisturbed, JoinerEffect
<1>5. CASE (\E n \in Joiner : LoseReply(n) \/ CrashJoiner(n)) \/ CrashLeader
  BY <1>5 DEF Undisturbed, JoinerEffect
<1>6. CASE (\E n \in Node : Run(n)) \/ UNCHANGED vars
  BY <1>6 DEF Run, vars, Undisturbed
<1> QED
  BY <1>1, <1>2, <1>3, <1>4, <1>5, <1>6 DEF Next, Environment

(* Which tables such a step changes.                                       *)
LEMMA JoinerTables ==
  ASSUME Types, NEW n \in Joiner, JoinerEffect(n)
  PROVE  /\ \A m \in Node : m # n => table'[m] = table[m]
         /\ table'[Leader] = table[Leader]
  BY NodeFacts DEF Types, JoinerEffect, JoinCluster, GetNodeList, LoseReply, CrashJoiner, Restart, Evict

LEMMA WorkerTables ==
  ASSUME Types, Abandoned, NEW w \in Worker, WorkerEffect(w)
  PROVE  /\ \A m \in Joiner : table'[m] = table[m]
         /\ UNCHANGED <<up, joined>>
         /\ ~ WriteSlot(w) => table' = table
  BY NodeFacts DEF Types, WorkerEffect, LoneRegister, Register, WriteSlot, Reply, history

LEMMA WrittenTable ==
  ASSUME Types, Abandoned, NEW w \in Worker, WriteSlot(w)
  PROVE  /\ worker[w].slot \in Slot /\ worker[w].node \in Joiner
         /\ table'[Leader] = [table[Leader] EXCEPT ![worker[w].slot] = worker[w].node]
<1>1. worker[w] \in WorkerState /\ worker[w].node # NoNode
  BY DEF WriteSlot, Types, Abandoned
<1> QED
  BY <1>1, NodeFacts DEF WriteSlot, Types, WorkerState, AddNodeAt

(* The leader's entries stay.                                              *)
Grows == \A i \in Slot : table[Leader][i] # NoNode => table'[Leader][i] = table[Leader][i]

LEMMA LeaderStep ==
  ASSUME Types, Abandoned, Agreement, Undisturbed
  PROVE  Grows /\ LeaderOrder'
<1>0. table[Leader] \in [Slot -> Node \cup {NoNode}] /\ Slot \subseteq Int
  BY NodeFacts, MaxNumNodesAssumption DEF Types, Table, Slot
<1>1. CASE table'[Leader] = table[Leader]
  BY <1>1 DEF Grows, LeaderOrder, Agreement
<1>2. ASSUME NEW w \in Worker, WriteSlot(w)
      PROVE  Grows /\ LeaderOrder'
  <2>1. PICK s \in Slot : s = worker[w].slot
    BY <1>2, WrittenTable
  <2>2. /\ worker[w].node \in Joiner
        /\ table'[Leader] = [table[Leader] EXCEPT ![s] = worker[w].node]
    BY <1>2, <2>1, WrittenTable
  <2>3. /\ table[Leader][s] = NoNode
        /\ \A i \in Slot : i < s => table[Leader][i] # NoNode
    BY <1>2, <2>1 DEF WriteSlot, Agreement, Writers
  <2>4. Grows
    BY <1>0, <2>2, <2>3 DEF Grows
  <2>5. table'[Leader][0] = Leader
    BY <2>4, NodeFacts DEF Grows, Agreement, LeaderOrder
  <2>6. ASSUME NEW i \in Slot, NEW j \in Slot, i < j, table'[Leader][j] # NoNode
        PROVE  table'[Leader][i] # NoNode
    <3>1. CASE i = s
      BY <1>0, <2>2, <3>1, NodeFacts
    <3>2. CASE i # s /\ j = s
      <4>1. table[Leader][i] # NoNode
        BY <2>3, <2>6, <3>2
      <4> QED
        BY <1>0, <2>2, <3>2, <4>1
    <3>3. CASE i # s /\ j # s
      <4>1. table[Leader][j] # NoNode
        BY <1>0, <2>2, <2>6, <3>3
      <4>2. table[Leader][i] # NoNode
        BY <2>6, <4>1 DEF Agreement, LeaderOrder
      <4> QED
        BY <1>0, <2>2, <3>3, <4>2
    <3> QED
      BY <3>1, <3>2, <3>3
  <2> QED
    BY <2>4, <2>5, <2>6 DEF LeaderOrder
<1> QED
  BY <1>1, <1>2, JoinerTables, WorkerTables DEF Undisturbed, CrashLeader

(* What was in the leader's table is still there.                          *)
LEMMA StillMember ==
  ASSUME Types, Types', Grows
  PROVE  /\ FreeSlots(table[Leader]) = {} => FreeSlots(table[Leader])' = {}
         /\ \A n \in Node : NodeInCluster(table[Leader], n) => NodeInCluster(table[Leader], n)'
         /\ \A n \in Node : InLeader(n) => InLeader(n)'
<1>1. FreeSlots(table[Leader]) = {} => FreeSlots(table[Leader])' = {}
  BY DEF Grows, FreeSlots, SlotsOf
<1>2. \A n \in Node : NodeInCluster(table[Leader], n) => NodeInCluster(table[Leader], n)'
  BY NodeFacts DEF Grows, NodeInCluster, SlotsOf
<1> QED
  BY <1>1, <1>2 DEF InLeader

LEMMA StillListFor ==
  ASSUME Grows, NEW n \in Joiner, NEW l \in Listing, ListFor(n, l)
  PROVE  ListFor(n, l)'
<1>1. PICK S \in SUBSET Slot : l \in [S -> Node]
  BY DEF Listing
<1> QED
  BY <1>1, NodeFacts DEF ListFor, Grows

-----------------------------------------------------------------------------
(* The workers.                                                            *)
LEMMA WritersStep ==
  ASSUME Types, Abandoned, Agreement, Undisturbed
  PROVE  Writers'
<1>0. /\ Writers /\ worker \in [Worker -> WorkerState] /\ table[Leader] \in Table
  BY NodeFacts DEF Agreement, Types
<1>1. ASSUME table'[Leader] = table[Leader],
             \A u \in Worker : worker'[u].pc = "write" =>
               worker[u].pc = "write" /\ worker'[u].slot = worker[u].slot
      PROVE  Writers'
  BY <1>0, <1>1 DEF Writers
<1>2. CASE UNCHANGED <<up, table, socket, worker, joined>>
  BY <1>1, <1>2
<1>3. CASE CrashLeader
  BY <1>1, <1>3, IdleFacts DEF CrashLeader
<1>4. ASSUME NEW n \in Joiner, JoinerEffect(n)
      PROVE  Writers'
  <2>1. CASE CrashJoiner(n)
    BY <1>1, <1>4, <2>1, DeafWorkers, JoinerTables
  <2>2. CASE ~ CrashJoiner(n)
    <3>1. UNCHANGED worker
      BY <1>4, <2>2 DEF JoinerEffect, JoinCluster, GetNodeList, LoseReply, Restart, Evict
    <3> QED
      BY <1>1, <1>4, <3>1, JoinerTables
  <2> QED
    BY <2>1, <2>2
<1>5. ASSUME NEW w \in Worker, NEW n \in Joiner, NEW a \in BOOLEAN, LoneRegister(w, n, a)
      PROVE  Writers'
  <2>1. PICK s : Registered(w, n, a, s)
    BY <1>5, RegisterFacts DEF LoneRegister
  <2>2. worker' = [worker EXCEPT ![w] = s] /\ s \in WorkerState
    BY <2>1 DEF Registered
  <2>3. table' = table /\ \A u \in Worker : worker[u].pc # "write"
    BY <1>5 DEF LoneRegister, Register
  <2>4. CASE s.pc = "write"
    <3>1. FreeSlots(table[Leader]) # {} /\ s.slot = First(FreeSlots(table[Leader]))
      BY <2>1, <2>4 DEF Registered
    <3>2. FreeSlots(table[Leader]) \in SUBSET Slot
      BY DEF FreeSlots, SlotsOf
    <3>3. /\ s.slot \in FreeSlots(table[Leader])
          /\ \A j \in FreeSlots(table[Leader]) : s.slot <= j
      BY <3>1, <3>2, FirstIsLeast
    <3>4. /\ table[Leader][s.slot] = NoNode
          /\ \A i \in Slot : i < s.slot => table[Leader][i] # NoNode
      <4>1. s.slot \in Int /\ Slot \subseteq Int
        BY <3>2, <3>3, MaxNumNodesAssumption DEF Slot
      <4>2. table[Leader][s.slot] = NoNode
        BY <3>3 DEF FreeSlots, SlotsOf
      <4>3. ASSUME NEW i \in Slot, i < s.slot, table[Leader][i] = NoNode PROVE FALSE
        <5>1. s.slot <= i
          BY <3>3, <4>3 DEF FreeSlots, SlotsOf
        <5> QED
          BY <4>1, <4>3, <5>1
      <4> QED
        BY <4>2, <4>3
    <3> QED
      BY <1>0, <2>2, <2>3, <3>4 DEF Writers
  <2>5. CASE s.pc # "write"
    BY <1>0, <1>1, <2>2, <2>3, <2>5
  <2> QED
    BY <2>4, <2>5
<1>6. ASSUME NEW w \in Worker, WriteSlot(w)
      PROVE  Writers'
  <2>1. PICK s \in WorkerState : worker' = [worker EXCEPT ![w] = s] /\ s.pc = "list"
    BY <1>6, WrittenFacts
  <2>2. \A u \in Worker : worker'[u].pc # "write"
    BY <1>0, <1>6, <2>1 DEF WriteSlot, Writers
  <2> QED
    BY <2>2 DEF Writers
<1>7. ASSUME NEW w \in Worker, Reply(w)
      PROVE  Writers'
  <2>1. worker' = [worker EXCEPT ![w] = Idle] /\ table' = table
    BY <1>7 DEF Reply
  <2> QED
    BY <1>0, <1>1, <2>1, IdleFacts
<1> QED
  BY <1>2, <1>3, <1>4, <1>5, <1>6, <1>7 DEF Undisturbed, WorkerEffect

LEMMA ListedStep ==
  ASSUME Types, Types', Abandoned, Agreement, Undisturbed, Grows
  PROVE  Listed'
<1>0. /\ worker \in [Worker -> WorkerState] /\ table[Leader] \in [Slot -> Node \cup {NoNode}]
      /\ \A w \in Worker : worker[w].pc # "idle" => worker[w].node \in Node
  BY NodeFacts DEF Types, Table, Abandoned, WorkerState
<1> SUFFICES ASSUME NEW u \in Worker, worker'[u].pc = "list" PROVE InLeader(worker[u].node)'
  BY DEF Listed
<1>1. CASE worker[u].pc = "list" /\ worker'[u].node = worker[u].node
  <2>1. InLeader(worker[u].node) /\ worker[u].node \in Node
    BY <1>0, <1>1 DEF Agreement, Listed
  <2>2. PICK n \in Node : n = worker[u].node
    BY <2>1
  <2>3. InLeader(n)'
    BY <2>1, <2>2, StillMember
  <2> QED
    BY <1>1, <2>2, <2>3 DEF InLeader
<1>2. CASE UNCHANGED <<up, table, socket, worker, joined>>
  BY <1>1, <1>2
<1>3. CASE CrashLeader
  BY <1>3, IdleFacts DEF CrashLeader
<1>4. ASSUME NEW n \in Joiner, JoinerEffect(n)
      PROVE  InLeader(worker[u].node)'
  <2>1. CASE CrashJoiner(n)
    BY <1>1, <2>1, DeafWorkers
  <2>2. CASE ~ CrashJoiner(n)
    <3>1. UNCHANGED worker
      BY <1>4, <2>2 DEF JoinerEffect, JoinCluster, GetNodeList, LoseReply, Restart, Evict
    <3> QED
      BY <1>1, <3>1
  <2> QED
    BY <2>1, <2>2
<1>5. ASSUME NEW w \in Worker, NEW n \in Joiner, NEW a \in BOOLEAN, LoneRegister(w, n, a)
      PROVE  InLeader(worker[u].node)'
  <2>1. PICK s : Registered(w, n, a, s)
    BY <1>5, RegisterFacts DEF LoneRegister
  <2>2. worker' = [worker EXCEPT ![w] = s] /\ s.node = n /\ (s.pc = "list" => InLeader(n))
    BY <2>1 DEF Registered, InLeader
  <2>3. CASE u = w
    <3>1. worker'[u].node = n /\ InLeader(n)'
      BY <1>0, <2>2, <2>3, StillMember, NodeFacts
    <3> QED
      BY <3>1 DEF InLeader
  <2>4. CASE u # w
    BY <1>0, <1>1, <2>2, <2>4
  <2> QED
    BY <2>3, <2>4
<1>6. ASSUME NEW w \in Worker, WriteSlot(w)
      PROVE  InLeader(worker[u].node)'
  <2>1. PICK s \in WorkerState :
          worker' = [worker EXCEPT ![w] = s] /\ s.pc = "list" /\ s.node = worker[w].node
    BY <1>6, WrittenFacts
  <2>2. CASE u = w
    <3>1. PICK i \in Slot, n \in Joiner : i = worker[w].slot /\ n = worker[w].node
      BY <1>6, WrittenTable
    <3>2. table'[Leader][i] = n
      BY <1>0, <1>6, <3>1, WrittenTable
    <3>3. worker'[u].node = n
      BY <1>0, <2>1, <2>2, <3>1
    <3> QED
      BY <3>2, <3>3 DEF InLeader, NodeInCluster, SlotsOf
  <2>3. CASE u # w
    BY <1>0, <1>1, <2>1, <2>3
  <2> QED
    BY <2>2, <2>3
<1>7. ASSUME NEW w \in Worker, Reply(w)
      PROVE  InLeader(worker[u].node)'
  BY <1>0, <1>1, <1>7, IdleFacts DEF Reply
<1> QED
  BY <1>2, <1>3, <1>4, <1>5, <1>6, <1>7 DEF Undisturbed, WorkerEffect

-----------------------------------------------------------------------------
(* The listing of the leader's table, for a joiner that a worker lists.    *)
LEMMA ListingIsFor ==
  ASSUME Types, LeaderOrder, NEW n \in Joiner, InLeader(n)
  PROVE  ListFor(n, GetNodesWithIdxInCluster(table[Leader]))
<1> DEFINE l == GetNodesWithIdxInCluster(table[Leader])
<1>0. table[Leader] \in [Slot -> Node \cup {NoNode}]
  BY NodeFacts DEF Types, Table
<1>1. /\ DOMAIN l = {i \in Slot : table[Leader][i] # NoNode}
      /\ \A i \in DOMAIN l : l[i] = table[Leader][i]
  BY DEF GetNodesWithIdxInCluster, FreeSlots, SlotsOf
<1>2. (\E i \in DOMAIN l : l[i] = n) \/ DOMAIN l = Slot
  BY <1>1, NodeFacts DEF InLeader, NodeInCluster, FreeSlots, SlotsOf
<1>3. ASSUME NEW i \in Slot, i <= 1
      PROVE  i \in DOMAIN l
  <2>1. i = 0 \/ i = 1
    BY <1>3, MaxNumNodesAssumption DEF Slot
  <2>2. CASE i = 0
    BY <1>1, <2>2, NodeFacts DEF LeaderOrder
  <2>3. CASE i = 1 /\ DOMAIN l # Slot
    <3>1. PICK j \in Slot : table[Leader][j] = n
      BY <1>1, <1>2, <2>3
    <3>2. j # 0
      BY <3>1, NodeFacts DEF LeaderOrder
    <3>3. j = 1 \/ 1 < j
      BY <3>2, MaxNumNodesAssumption DEF Slot
    <3>4. table[Leader][1] # NoNode
      BY <2>3, <3>1, <3>3, NodeFacts DEF LeaderOrder
    <3> QED
      BY <1>1, <2>3, <3>4
  <2> QED
    BY <1>3, <2>1, <2>2, <2>3
<1> QED
  BY <1>1, <1>2, <1>3 DEF ListFor

LEMMA ListsStep ==
  ASSUME Types, Types', Abandoned, Agreement, Undisturbed, Grows
  PROVE  Lists'
<1>0. /\ socket \in [Joiner -> Seq(Listing)]
      /\ Lists /\ LeaderOrder
  BY DEF Types, Agreement
<1> SUFFICES ASSUME NEW m \in Joiner, NEW k \in DOMAIN socket'[m]
             PROVE  \E l \in Listing : l = socket'[m][k] /\ ListFor(m, l)'
  BY DEF Lists, ListFor
<1>1. ASSUME NEW j \in DOMAIN socket[m], socket'[m][k] = socket[m][j]
      PROVE  \E l \in Listing : l = socket'[m][k] /\ ListFor(m, l)'
  <2>1. PICK l \in Listing : l = socket[m][j]
    BY <1>0, LenProperties
  <2>2. ListFor(m, l)
    BY <1>0, <2>1 DEF Lists
  <2> QED
    BY <1>1, <2>1, <2>2, StillListFor
<1>2. CASE socket'[m] = socket[m]
  BY <1>1, <1>2
<1>3. CASE socket[m] # <<>> /\ socket'[m] = Tail(socket[m])
  <2>1. /\ Len(socket[m]) \in Nat /\ DOMAIN socket[m] = 1 .. Len(socket[m])
        /\ Tail(socket[m]) \in Seq(Listing) /\ Len(Tail(socket[m])) = Len(socket[m]) - 1
        /\ \A i \in 1 .. Len(Tail(socket[m])) : Tail(socket[m])[i] = socket[m][i + 1]
    BY <1>0, <1>3, HeadTailProperties, LenProperties
  <2>2. k \in 1 .. Len(socket[m]) - 1
    BY <1>3, <2>1, LenProperties
  <2>3. k + 1 \in DOMAIN socket[m] /\ socket'[m][k] = socket[m][k + 1]
    BY <1>3, <2>1, <2>2
  <2> QED
    BY <1>1, <2>3
<1>4. CASE socket'[m] = <<>>
  BY <1>4, EmptySeq
<1>5. ASSUME NEW w \in Worker, Reply(w), worker[w].answers, worker[w].node = m
      PROVE  \E l \in Listing : l = socket'[m][k] /\ ListFor(m, l)'
  <2>1. PICK l \in Listing : l = GetNodesWithIdxInCluster(table[Leader])
    BY ListingType, NodeFacts DEF Types
  <2>2. socket'[m] = Append(socket[m], l) /\ worker[w].pc = "list"
    BY <1>0, <1>5, <2>1 DEF Reply
  <2>3. /\ Len(socket[m]) \in Nat /\ DOMAIN socket[m] = 1 .. Len(socket[m])
        /\ DOMAIN socket'[m] = 1 .. Len(socket[m]) + 1
        /\ \A i \in 1 .. Len(socket[m]) : socket'[m][i] = socket[m][i]
        /\ socket'[m][Len(socket[m]) + 1] = l
    BY <1>0, <2>2, LenProperties
  <2>4. CASE k \in 1 .. Len(socket[m])
    BY <1>1, <2>3, <2>4
  <2>5. CASE k = Len(socket[m]) + 1
    <3>1. InLeader(m)
      BY <1>5, <2>2 DEF Agreement, Listed
    <3>2. ListFor(m, l)
      BY <1>0, <2>1, <3>1, ListingIsFor
    <3> QED
      BY <2>3, <2>5, <3>2, StillListFor
  <2> QED
    BY <2>3, <2>4, <2>5
<1>6. ASSUME NEW w \in Worker, WorkerEffect(w)
      PROVE  \E l \in Listing : l = socket'[m][k] /\ ListFor(m, l)'
  <2>1. CASE Reply(w) /\ worker[w].answers /\ worker[w].node = m
    BY <1>5, <2>1
  <2>2. CASE ~ (Reply(w) /\ worker[w].answers /\ worker[w].node = m)
    <3>1. socket'[m] = socket[m]
      BY <1>0, <1>6, <2>2 DEF WorkerEffect, LoneRegister, Register, WriteSlot, Reply, join_vars
    <3> QED
      BY <1>2, <3>1
  <2> QED
    BY <2>1, <2>2
<1>7. ASSUME NEW n \in Joiner, JoinerEffect(n)
      PROVE  \/ socket'[m] = socket[m]
             \/ socket[m] # <<>> /\ socket'[m] = Tail(socket[m])
             \/ socket'[m] = <<>>
  BY <1>0, <1>7 DEF JoinerEffect, JoinCluster, GetNodeList, LoseReply, CrashJoiner, Restart, Evict, join_vars
<1> QED
  BY <1>2, <1>3, <1>4, <1>6, <1>7 DEF Undisturbed, CrashLeader, join_vars

-----------------------------------------------------------------------------
(* The tables of the joiners.                                              *)
LEMMA NewTableFacts ==
  ASSUME NEW n \in Node
  PROVE  /\ NewTable(n)[0] = n
         /\ \A i \in Slot : i # 0 => NewTable(n)[i] = NoNode
<1>0. 0 \in Slot /\ Slot \subseteq Nat
  BY MaxNumNodesAssumption DEF Slot
<1>1. FreeSlots(EmptyTable) = Slot
  BY DEF FreeSlots, SlotsOf, EmptyTable
<1>2. First(Slot) = 0
  <2>1. First(Slot) \in Slot /\ First(Slot) <= 0
    BY <1>0, FirstIsLeast
  <2> QED
    BY <2>1, MaxNumNodesAssumption DEF Slot
<1>3. NewTable(n) = [EmptyTable EXCEPT ![0] = n]
  BY <1>0, <1>1, <1>2 DEF NewTable, AddNode
<1> QED
  BY <1>0, <1>3 DEF EmptyTable

(* Where Bootstrap's AddNode puts the leader: in the first free slot.      *)
LEMMA LeaderAdded ==
  ASSUME NEW t \in Table, FreeSlots(t) # {}
  PROVE  \E f \in Slot : /\ t[f] = NoNode /\ \A j \in Slot : t[j] = NoNode => f <= j
                        /\ AddNode(t, Leader) = [t EXCEPT ![f] = Leader]
<1>1. FreeSlots(t) \in SUBSET Slot
  BY DEF FreeSlots, SlotsOf
<1>2. First(FreeSlots(t)) \in FreeSlots(t) /\ \A j \in FreeSlots(t) : First(FreeSlots(t)) <= j
  BY <1>1, FirstIsLeast
<1>3. PICK f \in FreeSlots(t) : f = First(FreeSlots(t))
  BY <1>2
<1>4. AddNode(t, Leader) = [t EXCEPT ![f] = Leader]
  BY <1>3 DEF AddNode
<1>5. f \in Slot /\ t[f] = NoNode /\ \A j \in Slot : t[j] = NoNode => f <= j
  BY <1>2, <1>3 DEF FreeSlots, SlotsOf
<1> QED
  BY <1>4, <1>5

(* The joiner's table after JoinCluster: as before, or with the leader in  *)
(* the first free slot.                                                    *)
LEMMA JoinClusterTable ==
  ASSUME Types, NEW n \in Joiner, JoinCluster(n)
  PROVE  \/ table'[n] = table[n]
         \/ /\ \A i \in Slot : table[n][i] # Leader
            /\ \E f \in Slot : /\ table[n][f] = NoNode
                              /\ \A j \in Slot : table[n][j] = NoNode => f <= j
                              /\ table'[n] = [table[n] EXCEPT ![f] = Leader]
<1>0. n \in Node /\ table[n] \in Table
  BY NodeFacts DEF Types
<1>1. table'[n] = IF NodeInCluster(table[n], Leader) THEN table[n] ELSE AddNode(table[n], Leader)
  BY <1>0 DEF JoinCluster, Types
<1>2. CASE NodeInCluster(table[n], Leader) \/ FreeSlots(table[n]) = {}
  BY <1>1, <1>2 DEF AddNode
<1>3. CASE ~ NodeInCluster(table[n], Leader) /\ FreeSlots(table[n]) # {}
  <2>1. \A i \in Slot : table[n][i] # Leader
    BY <1>3 DEF NodeInCluster, SlotsOf
  <2> QED
    BY <1>0, <1>1, <1>3, <2>1, LeaderAdded
<1> QED
  BY <1>2, <1>3

(* After GetNodeList: the list, and what it does not cover.                *)
LEMMA GetNodeListTable ==
  ASSUME Types, Lists, NEW n \in Joiner, GetNodeList(n)
  PROVE  \E l \in Listing :
           /\ ListFor(n, l) /\ DOMAIN l \subseteq Slot /\ \A i \in DOMAIN l : l[i] \in Node
           /\ \A i \in Slot : table'[n][i] = IF i \in DOMAIN l THEN l[i] ELSE table[n][i]
<1>0. n \in Node /\ table[n] \in Table
  BY NodeFacts DEF Types
<1>1. /\ socket[n] \in Seq(Listing) /\ socket[n] # <<>>
      /\ table'[n] = Merge(table[n], Head(socket[n]))
  BY <1>0 DEF GetNodeList, Types
<1>2. PICK l \in Listing : l = Head(socket[n])
  BY <1>1, HeadTailProperties
<1>3. ListFor(n, l)
  <2>1. 1 \in DOMAIN socket[n] /\ l = socket[n][1]
    BY <1>1, <1>2, EmptySeq, LenProperties
  <2> QED
    BY <2>1 DEF Lists
<1> QED
  BY <1>0, <1>1, <1>2, <1>3, MergeType

LEMMA EvictTable ==
  ASSUME Types, NEW n \in Joiner, NEW m \in Node, Evict(n, m)
  PROVE  /\ m # n
         /\ \A i \in Slot : \/ table'[n][i] = table[n][i]
                            \/ table[n][i] = m /\ table'[n][i] = NoNode
<1>1. n \in Node /\ table[n] \in Table
  BY NodeFacts DEF Types
<1>2. m # n /\ table'[n] = ClearSlots(table[n], SlotToRemove(table[n], m))
  BY <1>1 DEF Evict, Types
<1> QED
  BY <1>1, <1>2, EvictedType

FreshTable(n) ==
  /\ table[n][0] = n
  /\ \A i \in Slot : /\ i = 1 => table[n][i] \in {NoNode, Leader}
                     /\ i > 1 => table[n][i] = NoNode

LEMMA FreshStep ==
  ASSUME Types, Types', Abandoned, Agreement, Undisturbed
  PROVE  Fresh'
<1>0. \A m \in (Joiner \cap up) \ joined : FreshTable(m)
  BY DEF Agreement, Fresh, FreshTable
<1> SUFFICES ASSUME NEW m \in Joiner, m \in up', m \notin joined'
             PROVE  FreshTable(m)'
  BY DEF Fresh, FreshTable
<1>1. ASSUME m \in up, m \notin joined, table'[m] = table[m]
      PROVE  FreshTable(m)'
  BY <1>0, <1>1 DEF FreshTable
<1>2. CASE UNCHANGED <<up, table, socket, worker, joined>> \/ CrashLeader
  BY <1>1, <1>2 DEF CrashLeader, history
<1>3. ASSUME NEW w \in Worker, WorkerEffect(w)
      PROVE  FreshTable(m)'
  BY <1>1, <1>3, WorkerTables
<1>4. ASSUME NEW n \in Joiner, JoinerEffect(n), m # n
      PROVE  FreshTable(m)'
  <2>1. table'[m] = table[m]
    BY <1>4, JoinerTables, NodeFacts
  <2>2. m \in up /\ m \notin joined
    BY <1>4 DEF JoinerEffect, JoinCluster, GetNodeList, LoseReply, CrashJoiner, Restart, Evict, history
  <2> QED
    BY <1>1, <2>1, <2>2
<1>5. CASE JoinCluster(m)
  <2>1. m \in up /\ m \notin joined /\ FreshTable(m)
    BY <1>0, <1>5 DEF JoinCluster, history
  <2>2. CASE table'[m] = table[m]
    BY <1>1, <2>1, <2>2
  <2>3. CASE table'[m] # table[m]
    <3>0. /\ \A i \in Slot : table[m][i] # Leader
          /\ \E f \in Slot : /\ table[m][f] = NoNode
                            /\ \A j \in Slot : table[m][j] = NoNode => f <= j
                            /\ table'[m] = [table[m] EXCEPT ![f] = Leader]
      BY <1>5, <2>3, JoinClusterTable
    <3>1. PICK f \in Slot : /\ table[m][f] = NoNode
                           /\ \A j \in Slot : table[m][j] = NoNode => f <= j
                           /\ table'[m] = [table[m] EXCEPT ![f] = Leader]
      BY <3>0
    <3>2. f # 0
      BY <2>1, <3>1, NodeFacts DEF FreshTable
    <3>3. 1 \in Slot
      BY <3>2, MaxNumNodesAssumption DEF Slot
    <3>4. f <= 1
      BY <2>1, <3>0, <3>1, <3>3 DEF FreshTable
    <3>5. f = 1
      BY <3>2, <3>4, MaxNumNodesAssumption DEF Slot
    <3>6. table[m] \in [Slot -> Node \cup {NoNode}]
      BY NodeFacts DEF Types, Table
    <3>7. table'[m] = [table[m] EXCEPT ![1] = Leader]
      BY <3>1, <3>5
    <3>8. table'[m][1] = Leader /\ \A i \in Slot : i # 1 => table'[m][i] = table[m][i]
      BY <3>3, <3>6, <3>7
    <3>9. table'[m][0] = m
      BY <2>1, <3>8, NodeFacts DEF FreshTable
    <3>10. ASSUME NEW i \in Slot, i > 1 PROVE table'[m][i] = NoNode
      BY <2>1, <3>8, <3>10, MaxNumNodesAssumption DEF FreshTable, Slot
    <3> QED
      BY <3>8, <3>9, <3>10 DEF FreshTable
  <2> QED
    BY <2>2, <2>3
<1>6. CASE GetNodeList(m)
  BY <1>6 DEF GetNodeList
<1>7. CASE LoseReply(m)
  BY <1>1, <1>7 DEF LoseReply, history
<1>8. CASE CrashJoiner(m)
  BY <1>8 DEF CrashJoiner
<1>9. CASE Restart(m)
  <2>1. m \in Node /\ table'[m] = NewTable(m)
    BY <1>9, NodeFacts DEF Restart, Types
  <2>2. Slot \subseteq Int
    BY MaxNumNodesAssumption DEF Slot
  <2> QED
    BY <2>1, <2>2, NewTableFacts DEF FreshTable
<1>10. ASSUME NEW k \in Node, Evict(m, k)
       PROVE  FreshTable(m)'
  <2>1. m \in up /\ m \notin joined /\ FreshTable(m)
    BY <1>0, <1>10 DEF Evict
  <2> QED
    BY <1>10, <2>1, EvictTable, NodeFacts DEF FreshTable
<1> QED
  BY <1>2, <1>3, <1>4, <1>5, <1>6, <1>7, <1>8, <1>9, <1>10 DEF Undisturbed, JoinerEffect

LEMMA AgreedStep ==
  ASSUME Types, Types', Abandoned, Agreement, Undisturbed, Grows
  PROVE  Agreed'
<1>0. Agreed /\ LeaderOrder /\ Lists
  BY DEF Agreement
<1> SUFFICES ASSUME NEW m \in Joiner, m \in joined', NEW i \in Slot
             PROVE  table'[m][i] = NoNode \/ table'[m][i] = table'[Leader][i]
  BY DEF Agreed, Types
<1>1. ASSUME m \in joined, table'[m][i] = table[m][i]
      PROVE  table'[m][i] = NoNode \/ table'[m][i] = table'[Leader][i]
  BY <1>0, <1>1 DEF Agreed, Grows
<1>2. CASE UNCHANGED <<up, table, socket, worker, joined>> \/ CrashLeader
  BY <1>1, <1>2 DEF CrashLeader, history
<1>3. ASSUME NEW w \in Worker, WorkerEffect(w)
      PROVE  table'[m][i] = NoNode \/ table'[m][i] = table'[Leader][i]
  BY <1>1, <1>3, WorkerTables
<1>4. ASSUME NEW n \in Joiner, JoinerEffect(n), m # n
      PROVE  table'[m][i] = NoNode \/ table'[m][i] = table'[Leader][i]
  <2>1. table'[m] = table[m]
    BY <1>4, JoinerTables, NodeFacts
  <2>2. m \in joined
    BY <1>4 DEF JoinerEffect, JoinCluster, GetNodeList, LoseReply, CrashJoiner, Restart, Evict, history
  <2> QED
    BY <1>1, <2>1, <2>2
<1>5. CASE JoinCluster(m)
  <2>1. m \in joined /\ table'[Leader] = table[Leader]
    BY <1>5, JoinerTables DEF JoinCluster, history, JoinerEffect
  <2>2. CASE table'[m] = table[m]
    BY <1>1, <2>1, <2>2
  <2>3. CASE table'[m] # table[m]
    <3>0. /\ \A j \in Slot : table[m][j] # Leader
          /\ \E f \in Slot : /\ table[m][f] = NoNode
                            /\ \A j \in Slot : table[m][j] = NoNode => f <= j
                            /\ table'[m] = [table[m] EXCEPT ![f] = Leader]
      BY <1>5, <2>3, JoinClusterTable
    <3>1. PICK f \in Slot : /\ table[m][f] = NoNode
                           /\ \A j \in Slot : table[m][j] = NoNode => f <= j
                           /\ table'[m] = [table[m] EXCEPT ![f] = Leader]
      BY <3>0
    <3>2. table[m][0] = NoNode
      BY <1>0, <2>1, <3>0, NodeFacts DEF Agreed, LeaderOrder
    <3>3. f <= 0
      BY <3>1, <3>2, NodeFacts
    <3>4. f = 0
      BY <3>3, MaxNumNodesAssumption DEF Slot
    <3>5. table[m] \in [Slot -> Node \cup {NoNode}]
      BY NodeFacts DEF Types, Table
    <3>6. CASE i = 0
      BY <1>0, <2>1, <3>1, <3>4, <3>5, <3>6 DEF LeaderOrder
    <3>7. CASE i # 0
      BY <1>1, <2>1, <3>1, <3>4, <3>5, <3>7
    <3> QED
      BY <3>6, <3>7
  <2> QED
    BY <2>2, <2>3
<1>6. CASE GetNodeList(m)
  <2>1. PICK l \in Listing :
          /\ ListFor(m, l) /\ DOMAIN l \subseteq Slot /\ \A j \in DOMAIN l : l[j] \in Node
          /\ \A j \in Slot : table'[m][j] = IF j \in DOMAIN l THEN l[j] ELSE table[m][j]
    BY <1>0, <1>6, GetNodeListTable
  <2>2. table'[Leader] = table[Leader]
    BY <1>6, JoinerTables DEF JoinerEffect
  <2>3. CASE i \in DOMAIN l
    BY <2>1, <2>2, <2>3 DEF ListFor
  <2>4. CASE i \notin DOMAIN l /\ m \in joined
    BY <1>1, <2>1, <2>4
  <2>5. CASE i \notin DOMAIN l /\ m \notin joined
    <3>1. ~ (i <= 1)
      BY <2>1, <2>5 DEF ListFor
    <3>2. i > 1
      BY <3>1, MaxNumNodesAssumption DEF Slot
    <3>3. table[m][i] = NoNode
      BY <1>6, <2>5, <3>2 DEF Agreement, Fresh, GetNodeList
    <3> QED
      BY <2>1, <2>5, <3>3
  <2> QED
    BY <2>3, <2>4, <2>5
<1>7. CASE LoseReply(m)
  BY <1>1, <1>7 DEF LoseReply, history
<1>8. CASE CrashJoiner(m)
  BY <1>8 DEF CrashJoiner
<1>9. CASE Restart(m)
  BY <1>9 DEF Restart, Types
<1>10. ASSUME NEW k \in Node, Evict(m, k)
       PROVE  table'[m][i] = NoNode \/ table'[m][i] = table'[Leader][i]
  <2>1. m \in joined
    BY <1>10 DEF Evict
  <2> QED
    BY <1>1, <1>10, <2>1, EvictTable
<1> QED
  BY <1>2, <1>3, <1>4, <1>5, <1>6, <1>7, <1>8, <1>9, <1>10 DEF Undisturbed, JoinerEffect

LEMMA MembersStep ==
  ASSUME Types, Types', Abandoned, Agreement, Undisturbed, Grows
  PROVE  Members'
<1>0. Members /\ LeaderOrder /\ Lists
  BY DEF Agreement
<1> SUFFICES ASSUME NEW m \in Joiner, m \in joined'
             PROVE  \/ NodeInCluster(table[m], m)' /\ NodeInCluster(table[Leader], m)'
                    \/ FreeSlots(table[Leader])' = {}
  BY DEF Members, Types
<1>1. ASSUME m \in joined,
             \A i \in Slot : table[m][i] = m => table'[m][i] = m
      PROVE  \/ NodeInCluster(table[m], m)' /\ NodeInCluster(table[Leader], m)'
             \/ FreeSlots(table[Leader])' = {}
  <2>1. NodeInCluster(table[m], m) => NodeInCluster(table[m], m)'
    BY <1>1 DEF NodeInCluster, SlotsOf
  <2> QED
    BY <1>0, <1>1, <2>1, StillMember, NodeFacts DEF Members
<1>2. CASE UNCHANGED <<up, table, socket, worker, joined>> \/ CrashLeader
  BY <1>1, <1>2 DEF CrashLeader, history
<1>3. ASSUME NEW w \in Worker, WorkerEffect(w)
      PROVE  m \in joined /\ \A i \in Slot : table[m][i] = m => table'[m][i] = m
  BY <1>3, WorkerTables
<1>4. ASSUME NEW n \in Joiner, JoinerEffect(n), m # n
      PROVE  m \in joined /\ \A i \in Slot : table[m][i] = m => table'[m][i] = m
  <2>1. table'[m] = table[m]
    BY <1>4, JoinerTables, NodeFacts
  <2>2. m \in joined
    BY <1>4 DEF JoinerEffect, JoinCluster, GetNodeList, LoseReply, CrashJoiner, Restart, Evict, history
  <2> QED
    BY <2>1, <2>2
<1>5. CASE JoinCluster(m)
  <2>1. m \in joined
    BY <1>5 DEF JoinCluster, history
  <2>2. table[m] \in [Slot -> Node \cup {NoNode}]
    BY NodeFacts DEF Types, Table
  <2>3. \A i \in Slot : table[m][i] = m => table'[m][i] = m
    BY <1>5, <2>2, JoinClusterTable, NodeFacts
  <2> QED
    BY <1>1, <2>1, <2>3
<1>6. CASE GetNodeList(m)
  <2>1. PICK l \in Listing :
          /\ ListFor(m, l) /\ DOMAIN l \subseteq Slot /\ \A j \in DOMAIN l : l[j] \in Node
          /\ \A j \in Slot : table'[m][j] = IF j \in DOMAIN l THEN l[j] ELSE table[m][j]
    BY <1>0, <1>6, GetNodeListTable
  <2>2. table'[Leader] = table[Leader]
    BY <1>6, JoinerTables DEF JoinerEffect
  <2>3. CASE \E i \in DOMAIN l : l[i] = m
    <3>1. PICK i \in Slot : i \in DOMAIN l /\ l[i] = m
      BY <2>1, <2>3
    <3>2. table'[m][i] = m /\ table'[Leader][i] = m
      BY <2>1, <2>2, <3>1 DEF ListFor
    <3> QED
      BY <3>2 DEF NodeInCluster, SlotsOf
  <2>4. CASE DOMAIN l = Slot
    <3>1. \A i \in Slot : table'[Leader][i] # NoNode
      BY <2>1, <2>2, <2>4, NodeFacts DEF ListFor
    <3> QED
      BY <3>1 DEF FreeSlots, SlotsOf
  <2> QED
    BY <2>1, <2>3, <2>4 DEF ListFor
<1>7. CASE LoseReply(m)
  BY <1>1, <1>7 DEF LoseReply, history
<1>8. CASE CrashJoiner(m)
  BY <1>8 DEF CrashJoiner
<1>9. CASE Restart(m)
  BY <1>9 DEF Restart, Types
<1>10. ASSUME NEW k \in Node, Evict(m, k)
       PROVE  m \in joined /\ \A i \in Slot : table[m][i] = m => table'[m][i] = m
  <2>1. m \in joined
    BY <1>10 DEF Evict
  <2> QED
    BY <1>10, <2>1, EvictTable
<1> QED
  BY <1>1, <1>2, <1>3, <1>4, <1>5, <1>6, <1>7, <1>8, <1>9, <1>10 DEF Undisturbed, JoinerEffect

-----------------------------------------------------------------------------
Inv == causes = {} => Agreement

LEMMA InvInit == Init => Inv
<1> SUFFICES ASSUME Init PROVE Agreement
  BY DEF Inv
<1>0. Slot \subseteq Int /\ 0 \in Slot /\ \A i \in Slot : i >= 0
  BY MaxNumNodesAssumption DEF Slot
<1>1. table[Leader] = NewTable(Leader)
  BY NodeFacts DEF Init
<1>2. table[Leader][0] = Leader /\ \A i \in Slot : i # 0 => table[Leader][i] = NoNode
  BY <1>1, NewTableFacts, NodeFacts
<1>3. LeaderOrder
  <2>1. ASSUME NEW i \in Slot, NEW j \in Slot, i < j, table[Leader][j] # NoNode
        PROVE  FALSE
    <3>1. j # 0
      BY <1>0, <2>1
    <3> QED
      BY <1>2, <2>1, <3>1
  <2> QED
    BY <1>2, <2>1 DEF LeaderOrder
<1>4. Writers /\ Listed
  BY IdleFacts DEF Init, Writers, Listed
<1>5. Lists
  BY EmptySeq DEF Init, Lists
<1>6. ASSUME NEW n \in Joiner
      PROVE  /\ table[n][0] = n
             /\ \A i \in Slot : i # 0 => table[n][i] = NoNode
  <2>1. n \in Node /\ table[n] = NewTable(n)
    BY NodeFacts DEF Init
  <2> QED
    BY <2>1, NewTableFacts
<1>7. Fresh
  BY <1>0, <1>6 DEF Fresh
<1>8. Agreed /\ Members
  BY DEF Init, Agreed, Members
<1> QED
  BY <1>3, <1>4, <1>5, <1>7, <1>8 DEF Agreement

LEMMA InvStep ==
  ASSUME Types, Abandoned, Inv, [Next]_vars
  PROVE  Inv'
<1> SUFFICES ASSUME causes' = {} PROVE Agreement'
  BY DEF Inv
<1>1. Types'
  BY TypesStep
<1>2. Agreement /\ Undisturbed
  BY CausesStay, StepKinds DEF Inv
<1>3. Grows /\ LeaderOrder'
  BY <1>2, LeaderStep
<1>4. Writers' /\ Fresh'
  BY <1>1, <1>2, WritersStep, FreshStep
<1>5. Listed' /\ Lists' /\ Agreed' /\ Members'
  BY <1>1, <1>2, <1>3, ListedStep, ListsStep, AgreedStep, MembersStep
<1> QED
  BY <1>3, <1>4, <1>5 DEF Agreement

LEMMA InvAlways == Spec => []Inv
<1>1. Types /\ Abandoned /\ Inv /\ [Next]_vars => Inv'
  BY InvStep
<1> QED
  BY TypesAlways, InvInit, <1>1, PTL DEF Spec

(* A slot number means the same node at every node that has joined as at   *)
(* the leader, for any number of nodes, lost, late and repeated messages   *)
(* and crashes, unless the leader evicted, restarted or registered two     *)
(* nodes at once (Cluster.cpp:36-45, 60-74, IMQNode.cpp:25-42).            *)
THEOREM SlotNumbersAgree == Spec => []SlotsAgree
<1>1. Inv => SlotsAgree
  BY DEF Inv, Agreement, Agreed, SlotsAgree
<1> QED
  BY InvAlways, <1>1, PTL

(* With the same exceptions, a node that has joined is a member for itself *)
(* and for the leader, unless the leader's table is full, whichever answer *)
(* it read (Cluster.cpp:29-45, 60-68, IMQNode.cpp:25-30).                  *)
THEOREM JoinersAreMembers == Spec => []JoinedIsMember
<1>1. Inv => JoinedIsMember
  BY DEF Inv, Agreement, Members, JoinedIsMember
<1> QED
  BY InvAlways, <1>1, PTL

=============================================================================
