---------------------------- MODULE HealthProofs -----------------------------
(***************************************************************************)
(* Theorems about Health, for any number of slots, peers, workers and      *)
(* retries.                                                                *)
(***************************************************************************)
EXTENDS Health, ClusterProofs

-----------------------------------------------------------------------------
(* The node itself and its peers make up the members a table may hold.     *)
LEMMA NodeFacts ==
  /\ Self \in Node /\ NoNode \notin Peer /\ Self # NoNode
  /\ Peer \subseteq Node
  /\ \A n \in Node : n # Self => n \in Peer
  BY NodeAssumption, NoNodeAssumption

(* What the next entry of the current round is.                            *)
LEMMA CurrentType ==
  ASSUME TypeOK, DOMAIN todo # {}
  PROVE  /\ Current \in Node
         /\ Current # Self => Current \in Peer
         /\ Without(todo, First(DOMAIN todo)) \in Listing
<1>1. Current \in Node
  BY ListingFirst DEF TypeOK, Current
<1>2. Without(todo, First(DOMAIN todo)) \in Listing
  BY ListingWithout DEF TypeOK, Without
<1> QED
  BY <1>1, <1>2, NodeFacts

(* A callback keeps the shape of the retry map and of what it leaves to    *)
(* Evict.                                                                  *)
CallbackTypes ==
  /\ DOMAIN num_retries' \subseteq Peer
  /\ num_retries' \in [DOMAIN num_retries' -> 0 .. REMOVE_AFTER_NUM_RETRIES]
  /\ \/ hpc' = "checking" /\ target' = NoNode /\ found' = {}
     \/ hpc' = "evicting" /\ target' = target /\ found' \subseteq Slot

LEMMA HealthyCallbackType ==
  ASSUME TypeOK, NEW n \in Peer, HealthyNodeCallback(n)
  PROVE  CallbackTypes
  BY DEF TypeOK, HealthyNodeCallback, CheckOver, Without, Marked, CallbackTypes

LEMMA TimedoutCallbackType ==
  ASSUME TypeOK, NEW n \in Peer, TimedoutNodeCallback(n)
  PROVE  CallbackTypes
<1> USE DEF TypeOK, Marked, CallbackTypes
<1>1. CASE n \notin Marked /\ Mark(n)
  BY <1>1, RetriesAssumption DEF Mark, CheckOver
<1>2. CASE n \in Marked /\ num_retries[n] < REMOVE_AFTER_NUM_RETRIES /\ Count(n)
  BY <1>2, RetriesAssumption DEF Count, CheckOver
<1>3. CASE FindVictim(n)
  BY <1>3, SlotToRemoveType DEF FindVictim
<1> QED
  BY <1>1, <1>2, <1>3 DEF TimedoutNodeCallback

-----------------------------------------------------------------------------
LEMMA TypeInit == Init => TypeOK
<1> SUFFICES ASSUME Init PROVE TypeOK
  OBVIOUS
<1>1. nodes_ \in Table
  BY AddNodeType, EmptyTableType, NodeFacts DEF Init
<1>2. todo \in Listing
  <2>1. todo \in [{} -> Node]
    BY DEF Init
  <2> QED
    BY <2>1 DEF Listing
<1>3. worker \in [Worker -> [pc : {"idle", "add", "write", "reply"},
                             node : Peer \cup {NoNode}, slot : Slot]]
  BY MaxNumNodesAssumption DEF Init, Idle, Slot
<1> QED
  BY <1>1, <1>2, <1>3, NodeFacts DEF Init, TypeOK, Marked, Idle

LEMMA TypeHealthThread == TypeOK /\ HealthThread => TypeOK'
<1> SUFFICES ASSUME TypeOK, HealthThread PROVE TypeOK'
  OBVIOUS
<1> USE DEF peer_vars, channel_vars
<1>1. CASE BeginRound
  BY <1>1, ListingType DEF BeginRound, TypeOK, Marked
<1>2. CASE SkipSelf
  BY <1>2, CurrentType DEF SkipSelf, TypeOK, Marked
<1>3. CASE CheckNode /\ CallNode
  <2>1. Current \in Peer /\ todo' \in Listing
    BY <1>3, CurrentType DEF CheckNode, CallNode
  <2>2. pending' \in [Peer -> Nat]
    BY <1>3, <2>1 DEF CheckNode, CallNode, TypeOK
  <2> QED
    BY <1>3, <2>1, <2>2, NodeFacts DEF CheckNode, CallNode, TypeOK, Marked
<1>4. CASE CheckNode /\ NodeNotFound
  BY <1>4 DEF CheckNode, NodeNotFound, TypeOK, Marked
<1>5. CASE EndRound
  BY <1>5 DEF EndRound, TypeOK, Marked
<1>6. CASE CheckAnswered
  <2>1. target \in Peer
    BY <1>6 DEF CheckAnswered, TypeOK
  <2>2. CallbackTypes
    BY <1>6, <2>1, HealthyCallbackType DEF CheckAnswered
  <2>3. unread' \in [Peer -> Nat] /\ streak' \in [Peer -> Nat]
    BY <1>6, <2>1 DEF CheckAnswered, TypeOK
  <2> QED
    BY <1>6, <2>1, <2>2, <2>3, NodeFacts DEF CheckAnswered, TypeOK, Marked, CallbackTypes
<1>7. CASE CheckTimedOut
  <2>1. target \in Peer
    BY <1>7 DEF CheckTimedOut, TypeOK
  <2>2. CallbackTypes
    BY <1>7, <2>1, TimedoutCallbackType DEF CheckTimedOut
  <2>3. streak' \in [Peer -> Nat]
    BY <1>7, <2>1 DEF CheckTimedOut, TypeOK
  <2> QED
    BY <1>7, <2>1, <2>2, <2>3, NodeFacts DEF CheckTimedOut, TypeOK, Marked, CallbackTypes
<1>8. CASE CheckAbandoned
  BY <1>8 DEF CheckAbandoned, CheckOver, TypeOK, Marked
<1>9. CASE Evict
  <2>1. nodes_' \in Table
    BY <1>9, ClearSlotsType DEF Evict, TypeOK
  <2>2. streak' \in [Peer -> Nat]
    BY <1>9 DEF Evict, TypeOK
  <2>3. /\ DOMAIN num_retries' \subseteq Peer
        /\ num_retries' \in [DOMAIN num_retries' -> 0 .. REMOVE_AFTER_NUM_RETRIES]
    BY <1>9 DEF Evict, Without, TypeOK, Marked
  <2> QED
    BY <1>9, <2>1, <2>2, <2>3 DEF Evict, CheckOver, TypeOK, Marked
<1> QED
  BY <1>1, <1>2, <1>3, <1>4, <1>5, <1>6, <1>7, <1>8, <1>9 DEF HealthThread, CheckNode

LEMMA TypeWorker ==
  ASSUME TypeOK, NEW w \in Worker, WorkerStep(w) \/ ServeJoin(w)
  PROVE  TypeOK'
<1> USE DEF health_vars, peer_vars, channel_vars
<1> DEFINE WorkerState == [pc : {"idle", "add", "write", "reply"},
                           node : Peer \cup {NoNode}, slot : Slot]
<1>0. 0 \in Slot
  BY MaxNumNodesAssumption DEF Slot
<1>1. CASE ServeJoin(w)
  <2>1. PICK n \in Peer : CheckRegistered(w, n)
    BY <1>1 DEF ServeJoin
  <2>2. /\ worker' \in [Worker -> WorkerState]
        /\ \A v \in Worker : worker'[v].pc \in {"add", "write"} => worker'[v].node # NoNode
    BY <2>1, <1>0, NodeFacts DEF CheckRegistered, TypeOK, Idle, Replying
  <2> QED
    BY <2>1, <2>2 DEF CheckRegistered, TypeOK, Marked
<1>2. CASE FindSlot(w)
  <2>1. /\ worker' \in [Worker -> WorkerState]
        /\ \A v \in Worker : worker'[v].pc \in {"add", "write"} => worker'[v].node # NoNode
    BY <1>2, <1>0, FreeSlotType DEF FindSlot, TypeOK, Idle, Replying
  <2> QED
    BY <1>2, <2>1 DEF FindSlot, TypeOK, Marked
<1>3. CASE WriteSlot(w)
  <2>1. worker[w].slot \in Slot /\ worker[w].node \in Node
    BY <1>3, NodeFacts DEF WriteSlot, TypeOK
  <2>2. nodes_' \in Table
    BY <1>3, <2>1, AddNodeAtType DEF WriteSlot, TypeOK
  <2>3. /\ worker' \in [Worker -> WorkerState]
        /\ \A v \in Worker : worker'[v].pc \in {"add", "write"} => worker'[v].node # NoNode
    BY <1>3, <1>0 DEF WriteSlot, TypeOK, Idle, Replying
  <2> QED
    BY <1>3, <2>2, <2>3 DEF WriteSlot, TypeOK, Marked
<1>4. CASE SendReply(w)
  <2>1. /\ worker' \in [Worker -> WorkerState]
        /\ \A v \in Worker : worker'[v].pc \in {"add", "write"} => worker'[v].node # NoNode
    BY <1>4, <1>0 DEF SendReply, TypeOK, Idle
  <2> QED
    BY <1>4, <2>1 DEF SendReply, TypeOK, Marked
<1> QED
  BY <1>1, <1>2, <1>3, <1>4 DEF WorkerStep

LEMMA TypePeer ==
  ASSUME TypeOK, NEW n \in Peer, PeerStep(n)
  PROVE  TypeOK'
<1> USE DEF TypeOK, Marked, health_vars, peer_vars, channel_vars
<1>1. CASE Join(n)
  BY <1>1 DEF Join
<1>2. CASE AnswerCheck(n)
  BY <1>2 DEF AnswerCheck
<1>3. CASE Crash(n)
  BY <1>3 DEF Crash
<1>4. CASE Disconnect(n)
  BY <1>4 DEF Disconnect
<1>5. CASE Restart(n)
  BY <1>5 DEF Restart
<1> QED
  BY <1>1, <1>2, <1>3, <1>4, <1>5 DEF PeerStep

(* Type correctness: whatever the threads and the peers do, the table      *)
(* keeps MAX_NUM_NODES slots of members, only peers are marked, and no     *)
(* counter passes REMOVE_AFTER_NUM_RETRIES (Cluster.cpp, Health.cpp).      *)
THEOREM TypeCorrect == Spec => []TypeOK
<1>1. Init => TypeOK
  BY TypeInit
<1>2. TypeOK /\ [Next]_vars => TypeOK'
  <2> SUFFICES ASSUME TypeOK, [Next]_vars PROVE TypeOK'
    OBVIOUS
  <2>1. CASE HealthThread
    BY <2>1, TypeHealthThread
  <2>2. CASE \E w \in Worker : WorkerStep(w) \/ ServeJoin(w)
    BY <2>2, TypeWorker
  <2>3. CASE \E n \in Peer : PeerStep(n)
    BY <2>3, TypePeer
  <2>4. CASE UNCHANGED vars
    BY <2>4 DEF vars, health_vars, peer_vars, channel_vars, TypeOK, Marked
  <2> QED
    BY <2>1, <2>2, <2>3, <2>4 DEF Next
<1> QED
  BY <1>1, <1>2, PTL DEF Spec

-----------------------------------------------------------------------------
(* The node's own entry.  Only two kinds of step touch the table: an       *)
(* eviction clears a slot that held the target, which is a peer, when it   *)
(* was found; a worker writes to a slot that was free when it looked, and  *)
(* slot 0 never is.                                                        *)
LEMMA SelfInit == Init => KnowsSelf
  BY FirstAddNode, NodeFacts DEF Init, KnowsSelf, Idle

LEMMA SelfHealthThread ==
  ASSUME TypeOK, KnowsSelf, HealthThread
  PROVE  KnowsSelf'
<1> USE DEF KnowsSelf
<1>1. CASE BeginRound \/ SkipSelf \/ (CheckNode /\ NodeNotFound) \/ EndRound
  BY <1>1 DEF BeginRound, SkipSelf, CheckNode, NodeNotFound, EndRound
<1>2. CASE CheckNode /\ CallNode
  BY <1>2 DEF CheckNode, CallNode
<1>3. CASE CheckAnswered \/ CheckAbandoned
  BY <1>3, NodeFacts DEF CheckAnswered, CheckAbandoned, HealthyNodeCallback, CheckOver
<1>4. CASE CheckTimedOut
  <2>1. 0 \notin SlotToRemove(nodes_, target)
    BY SlotToRemoveType DEF TypeOK
  <2>2. target' # Self /\ 0 \notin found'
    BY <1>4, <2>1, NodeFacts
       DEF CheckTimedOut, TimedoutNodeCallback, Mark, Count, FindVictim, CheckOver
  <2> QED
    BY <1>4, <2>2 DEF CheckTimedOut
<1>5. CASE Evict
  <2>1. 0 \in Slot
    BY MaxNumNodesAssumption DEF Slot
  <2>2. nodes_'[0] = Self
    BY <1>5, <2>1, ClearSlotsType DEF Evict, TypeOK
  <2> QED
    BY <1>5, <2>2, NodeFacts DEF Evict, CheckOver
<1> QED
  BY <1>1, <1>2, <1>3, <1>4, <1>5 DEF HealthThread, CheckNode

LEMMA SelfWorker ==
  ASSUME TypeOK, KnowsSelf, NEW w \in Worker, WorkerStep(w) \/ ServeJoin(w)
  PROVE  KnowsSelf'
<1> USE DEF KnowsSelf, health_vars
<1>1. CASE ServeJoin(w)
  BY <1>1 DEF ServeJoin, CheckRegistered, TypeOK, Replying
<1>2. CASE FindSlot(w)
  <2>1. FreeSlots(nodes_) # {} => First(FreeSlots(nodes_)) # 0
    BY FreeSlotType, NodeFacts DEF TypeOK
  <2> QED
    BY <1>2, <2>1 DEF FindSlot, TypeOK, Replying
<1>3. CASE WriteSlot(w)
  BY <1>3 DEF WriteSlot, AddNodeAt, TypeOK, Table, Replying
<1>4. CASE SendReply(w)
  BY <1>4 DEF SendReply, TypeOK, Idle
<1> QED
  BY <1>1, <1>2, <1>3, <1>4 DEF WorkerStep

(* The node never loses its own entry and never checks itself, however the *)
(* workers' registrations and the evictions interleave (IMQNode.cpp:25-26, *)
(* Cluster.cpp:60-86, Health.cpp:77-80).                                   *)
THEOREM SelfKnown == Spec => []KnowsSelf
<1>1. TypeOK /\ KnowsSelf /\ [Next]_vars => KnowsSelf'
  <2> SUFFICES ASSUME TypeOK, KnowsSelf, [Next]_vars PROVE KnowsSelf'
    OBVIOUS
  <2>1. CASE HealthThread
    BY <2>1, SelfHealthThread
  <2>2. CASE \E w \in Worker : WorkerStep(w) \/ ServeJoin(w)
    BY <2>2, SelfWorker
  <2>3. CASE \E n \in Peer : PeerStep(n)
    BY <2>3 DEF PeerStep, Join, AnswerCheck, Crash, Disconnect, Restart, health_vars, KnowsSelf
  <2>4. CASE UNCHANGED vars
    BY <2>4 DEF vars, health_vars, KnowsSelf
  <2> QED
    BY <2>1, <2>2, <2>3, <2>4 DEF Next
<1> QED
  BY SelfInit, TypeCorrect, <1>1, PTL DEF Spec

-----------------------------------------------------------------------------
(* The retry map against the history of time-outs.  Of the steps, only the *)
(* end of a check and an eviction touch either, and they touch both for    *)
(* the target.                                                             *)
LEMMA RetriesInit == Init => RetriesCountSilence
  BY DEF Init, RetriesCountSilence, Marked

LEMMA RetriesTimedOut ==
  ASSUME TypeOK, RetriesCountSilence, CheckTimedOut
  PROVE  RetriesCountSilence'
<1> USE DEF RetriesCountSilence, Marked, TypeOK
<1>0. /\ hpc = "waiting" /\ target \in Peer
      /\ streak' = [streak EXCEPT ![target] = @ + 1]
  BY DEF CheckTimedOut
<1>1. CASE target \notin Marked /\ Mark(target)
  BY <1>0, <1>1 DEF Mark, CheckOver
<1>2. CASE target \in Marked /\ num_retries[target] < REMOVE_AFTER_NUM_RETRIES /\ Count(target)
  BY <1>0, <1>2 DEF Count, CheckOver
<1>3. CASE target \in Marked /\ FindVictim(target)
  BY <1>0, <1>3 DEF FindVictim
<1> QED
  BY <1>1, <1>2, <1>3 DEF CheckTimedOut, TimedoutNodeCallback

LEMMA RetriesHealthThread ==
  ASSUME TypeOK, RetriesCountSilence, HealthThread
  PROVE  RetriesCountSilence'
<1> USE DEF RetriesCountSilence, Marked
<1>1. CASE BeginRound \/ SkipSelf \/ CheckNode \/ EndRound
  BY <1>1 DEF BeginRound, SkipSelf, CheckNode, CallNode, NodeNotFound, EndRound
<1>2. CASE CheckAnswered
  BY <1>2 DEF CheckAnswered, HealthyNodeCallback, CheckOver, Without, TypeOK
<1>3. CASE CheckTimedOut
  BY <1>3, RetriesTimedOut
<1>4. CASE CheckAbandoned
  BY <1>4 DEF CheckAbandoned, CheckOver
<1>5. CASE Evict
  BY <1>5 DEF Evict, CheckOver, Without, TypeOK
<1> QED
  BY <1>1, <1>2, <1>3, <1>4, <1>5 DEF HealthThread

(* The workers and the peers leave all of the health thread's state alone. *)
LEMMA OthersKeepHealth ==
  ASSUME [Next]_vars
  PROVE  HealthThread \/ UNCHANGED health_vars
<1>1. ASSUME NEW w \in Worker, WorkerStep(w) \/ ServeJoin(w)
      PROVE  UNCHANGED health_vars
  BY <1>1 DEF WorkerStep, ServeJoin, CheckRegistered, FindSlot, WriteSlot, SendReply
<1>2. ASSUME NEW n \in Peer, PeerStep(n)
      PROVE  UNCHANGED health_vars
  BY <1>2 DEF PeerStep, Join, AnswerCheck, Crash, Disconnect, Restart
<1>3. CASE UNCHANGED vars
  BY <1>3 DEF vars
<1> QED
  BY <1>1, <1>2, <1>3 DEF Next

LEMMA RetriesStep ==
  ASSUME TypeOK, RetriesCountSilence, [Next]_vars
  PROVE  RetriesCountSilence'
<1>1. CASE HealthThread
  BY <1>1, RetriesHealthThread
<1>2. CASE UNCHANGED health_vars
  BY <1>2 DEF RetriesCountSilence, Marked, health_vars
<1> QED
  BY <1>1, <1>2, OthersKeepHealth

(* The retry counter of a marked node is one less than the time-outs since *)
(* its last reply or eviction, and an unmarked node has had none: nothing  *)
(* that happens in between counts twice or resets the count (Health.cpp:   *)
(* 27-62, Health.hpp:28-84).                                               *)
THEOREM RetriesAreSilence == Spec => []RetriesCountSilence
<1>1. TypeOK /\ RetriesCountSilence /\ [Next]_vars => RetriesCountSilence'
  BY RetriesStep
<1> QED
  BY RetriesInit, TypeCorrect, <1>1, PTL DEF Spec

-----------------------------------------------------------------------------
(* One step of EvictionAfterSilence.  Evict needs to know that its target  *)
(* is marked with the highest count: EvictingIsDue.                        *)
EvictionStep ==
  /\ hpc = "waiting" /\ hpc' = "evicting" =>
        \A i \in found' : nodes_[i] = target
  /\ hpc = "evicting" /\ hpc' = "checking" =>
        \A i \in Slot : nodes_[i] # nodes_'[i] =>
          i \in found /\ streak[target] = REMOVE_AFTER_NUM_RETRIES + 2

EvictingIsDue ==
  hpc = "evicting" => target \in Marked /\ num_retries[target] = REMOVE_AFTER_NUM_RETRIES

LEMMA EvictingInit == Init => EvictingIsDue
  BY DEF Init, EvictingIsDue

LEMMA EvictingStep ==
  ASSUME TypeOK, EvictingIsDue, [Next]_vars
  PROVE  EvictingIsDue'
<1> USE DEF EvictingIsDue, Marked
<1>1. CASE HealthThread
  <2>1. CASE CheckTimedOut
    BY <2>1, RetriesAssumption
       DEF CheckTimedOut, TimedoutNodeCallback, Mark, Count, FindVictim, CheckOver, TypeOK
  <2>2. CASE ~ CheckTimedOut
    BY <1>1, <2>2 DEF HealthThread, BeginRound, SkipSelf, CheckNode, CallNode, NodeNotFound, EndRound,
                      CheckAnswered, HealthyNodeCallback, CheckAbandoned, Evict, CheckOver
  <2> QED
    BY <2>1, <2>2
<1>2. CASE UNCHANGED health_vars
  BY <1>2 DEF health_vars
<1> QED
  BY <1>1, <1>2, OthersKeepHealth

LEMMA EvictionAnyStep ==
  ASSUME TypeOK, RetriesCountSilence, EvictingIsDue, [Next]_vars
  PROVE  EvictionStep
<1>1. CASE CheckTimedOut
  BY <1>1, SlotToRemoveType
     DEF CheckTimedOut, TimedoutNodeCallback, Mark, Count, FindVictim, CheckOver, TypeOK, EvictionStep
<1>2. CASE Evict
  <2>1. streak[target] = REMOVE_AFTER_NUM_RETRIES + 2
    BY <1>2, RetriesAssumption DEF Evict, EvictingIsDue, RetriesCountSilence, TypeOK
  <2>2. \A i \in Slot : nodes_[i] # nodes_'[i] => i \in found
    BY <1>2, ClearSlotsType DEF Evict, TypeOK
  <2> QED
    BY <1>2, <2>1, <2>2 DEF Evict, CheckOver, EvictionStep
<1>3. CASE HealthThread /\ ~ CheckTimedOut /\ ~ Evict
  BY <1>3 DEF HealthThread, BeginRound, SkipSelf, CheckNode, CallNode, NodeNotFound, EndRound,
              CheckAnswered, HealthyNodeCallback, CheckAbandoned, CheckOver, EvictionStep
<1>4. CASE UNCHANGED health_vars
  BY <1>4 DEF health_vars, EvictionStep
<1> QED
  BY <1>1, <1>2, <1>3, <1>4, OthersKeepHealth

(* The health thread clears a slot only where it found the node whose      *)
(* check just timed out, and only at the (REMOVE_AFTER_NUM_RETRIES + 2)nd  *)
(* time-out of that node in a row (Health.cpp:48-61, Cluster.cpp:76-86).   *)
THEOREM EvictionIsEarned == Spec => EvictionAfterSilence
<1>1. TypeOK /\ EvictingIsDue /\ [Next]_vars => EvictingIsDue'
  BY EvictingStep
<1>2. TypeOK /\ RetriesCountSilence /\ EvictingIsDue /\ [Next]_vars => [EvictionStep]_vars
  BY EvictionAnyStep
<1>3. EvictionAfterSilence <=> [][EvictionStep]_vars
  BY DEF EvictionAfterSilence, EvictionStep
<1> QED
  BY EvictingInit, TypeCorrect, RetriesAreSilence, <1>1, <1>2, <1>3, PTL DEF Spec

-----------------------------------------------------------------------------
(* What each step does to the connection to one peer.                      *)
OpenTo(n) == IF hpc = "waiting" /\ target = n THEN HealthCaller ELSE {}

LEMMA ConnectionStep ==
  ASSUME TypeOK, [Next]_vars, NEW n \in Peer
  PROVE  [Connection(n)!Next]_(Connection(n)!vars)
<1> USE DEF health_vars, peer_vars, channel_vars, HealthCaller
<1>0. pending[n] \in Nat /\ unread[n] \in Nat /\ "health" \in HealthCaller
  BY DEF TypeOK
<1> DEFINE Stutter == pending'[n] = pending[n] /\ unread'[n] = unread[n] /\ OpenTo(n)' = OpenTo(n)
<1>1. Stutter => [Connection(n)!Next]_(Connection(n)!vars)
  BY DEF Connection!vars, OpenTo
<1>2. CASE UNCHANGED vars
  BY <1>2, <1>1 DEF vars, OpenTo
<1>3. CASE BeginRound \/ SkipSelf \/ (CheckNode /\ NodeNotFound) \/ EndRound \/ Evict
  BY <1>3, <1>1 DEF BeginRound, SkipSelf, CheckNode, NodeNotFound, EndRound, Evict, OpenTo, CheckOver
<1>4. CASE CheckNode /\ CallNode
  <2>1. CASE Current = n
    <3>1. Connection(n)!Send("health")
      BY <1>0, <1>4, <2>1 DEF CheckNode, CallNode, TypeOK, Connection!Send
    <3> QED
      BY <3>1, <1>0 DEF Connection!Next
  <2>2. CASE Current # n
    BY <1>1, <1>4, <2>2 DEF CheckNode, CallNode, TypeOK, OpenTo
  <2> QED
    BY <2>1, <2>2
<1>5. CASE CheckAnswered \/ CheckTimedOut \/ CheckAbandoned
  <2>1. CASE target = n
    <3>1. hpc = "waiting" /\ hpc' # "waiting"
      BY <1>5 DEF CheckAnswered, CheckTimedOut, CheckAbandoned, HealthyNodeCallback,
                  TimedoutNodeCallback, Mark, Count, FindVictim, CheckOver
    <3>2. ASSUME CheckAnswered PROVE Connection(n)!ReadReply("health")
      BY <1>0, <2>1, <3>1, <3>2 DEF CheckAnswered, TypeOK, Connection!ReadReply
    <3>3. ASSUME CheckTimedOut \/ CheckAbandoned PROVE Connection(n)!GiveUp("health")
      BY <1>0, <2>1, <3>1, <3>3 DEF CheckTimedOut, CheckAbandoned, Connection!GiveUp
    <3> QED
      BY <1>0, <1>5, <3>2, <3>3 DEF Connection!Next
  <2>2. CASE target # n
    <3>1. hpc' = "waiting" => target' = target
      BY <1>5 DEF CheckAnswered, CheckTimedOut, CheckAbandoned, HealthyNodeCallback,
                  TimedoutNodeCallback, Mark, Count, FindVictim, CheckOver
    <3>2. hpc' # "waiting"
      BY <1>5 DEF CheckAnswered, CheckTimedOut, CheckAbandoned, HealthyNodeCallback,
                  TimedoutNodeCallback, Mark, Count, FindVictim, CheckOver
    <3>3. pending'[n] = pending[n] /\ unread'[n] = unread[n]
      BY <1>5, <2>2 DEF CheckAnswered, CheckTimedOut, CheckAbandoned, TypeOK
    <3> QED
      BY <1>1, <2>2, <3>2, <3>3 DEF OpenTo
  <2> QED
    BY <2>1, <2>2
<1>6. CASE \E w \in Worker : WorkerStep(w) \/ ServeJoin(w)
  BY <1>6, <1>1 DEF WorkerStep, ServeJoin, FindSlot, WriteSlot, SendReply, CheckRegistered, OpenTo
<1>7. ASSUME NEW m \in Peer, PeerStep(m)
      PROVE  [Connection(n)!Next]_(Connection(n)!vars)
  <2>0. hpc' = hpc /\ target' = target
    BY <1>7 DEF PeerStep, Join, AnswerCheck, Crash, Disconnect, Restart
  <2>1. CASE m # n \/ Join(m) \/ Restart(m)
    BY <1>1, <1>7, <2>0, <2>1 DEF PeerStep, Join, AnswerCheck, Crash, Disconnect, Restart, OpenTo, TypeOK
  <2>2. CASE m = n /\ AnswerCheck(m)
    <3>1. Connection(n)!Answer
      BY <1>0, <2>0, <2>2 DEF AnswerCheck, TypeOK, Connection!Answer
    <3> QED
      BY <3>1 DEF Connection!Next
  <2>3. CASE m = n /\ (Crash(m) \/ Disconnect(m))
    <3>1. pending'[n] \in 0 .. pending[n] /\ unread' = unread
      BY <1>0, <2>3 DEF Crash, Disconnect, TypeOK
    <3>2. Connection(n)!Lose
      BY <2>0, <3>1 DEF Connection!Lose
    <3> QED
      BY <3>2 DEF Connection!Next
  <2> QED
    BY <1>7, <2>1, <2>2, <2>3 DEF PeerStep
<1> QED
  BY <1>2, <1>3, <1>4, <1>5, <1>6, <1>7 DEF Next, HealthThread, CheckNode

(* The health thread uses each of its connections as a caller of           *)
(* RPCChannel: one request and at most one reply for each check, whatever  *)
(* rounds, evictions, crashes and late answers there are                   *)
(* (Health.cpp:74-103).                                                    *)
THEOREM ChecksUseChannels == Spec => UsesChannels
<1>1. Init => \A n \in Peer : Connection(n)!Init
  BY DEF Init, Connection!Init
<1>2. TypeOK /\ [Next]_vars => \A n \in Peer : [Connection(n)!Next]_(Connection(n)!vars)
  BY ConnectionStep
<1> QED
  BY <1>1, <1>2, TypeCorrect, PTL DEF Spec, UsesChannels

=============================================================================
