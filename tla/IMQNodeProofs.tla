---------------------------- MODULE IMQNodeProofs ----------------------------
(***************************************************************************)
(* Theorems about IMQNode, for any number of slots, peers, workers, lists  *)
(* that the leader may answer with and calls of JoinCluster.  The lemmas   *)
(* of HealthProofs deal with the steps that come from Health; what is left *)
(* are the steps of the main thread and the socket of the leader.          *)
(***************************************************************************)
EXTENDS IMQNode, HealthProofs, SequenceTheorems, FiniteSetTheorems

-----------------------------------------------------------------------------
(* The socket of the leader.                                               *)

(* What the leader may put in it.                                          *)
Reply == {HealthReply} \cup {NodesReply(l) : l \in LeaderList}

HealthReplies(s) == {k \in DOMAIN s : ~ IsNodeList(s[k])}

LEMMA ReplyFacts ==
  /\ HealthReply \in Reply /\ ~ IsNodeList(HealthReply)
  /\ \A l \in LeaderList : NodesReply(l) \in Reply /\ IsNodeList(NodesReply(l))
  /\ \A r \in Reply : IsNodeList(r) => r.nodes \in LeaderList
<1>1. HealthReply \in Reply /\ ~ IsNodeList(HealthReply)
  BY DEF Reply, HealthReply, IsNodeList
<1>2. \A l \in LeaderList : NodesReply(l) \in Reply
  BY DEF Reply
<1>3. \A l \in LeaderList : IsNodeList(NodesReply(l)) /\ NodesReply(l).nodes = l
  BY DEF NodesReply, IsNodeList
<1>4. ASSUME NEW r \in Reply, IsNodeList(r) PROVE r.nodes \in LeaderList
  <2>1. PICK l \in LeaderList : r = NodesReply(l)
    BY <1>1, <1>4 DEF Reply
  <2> QED
    BY <1>3, <2>1
<1> QED
  BY <1>1, <1>2, <1>3, <1>4

LEMMA HealthRepliesFinite ==
  ASSUME NEW s \in Seq(Reply)
  PROVE  IsFiniteSet(HealthReplies(s)) /\ Cardinality(HealthReplies(s)) \in Nat
<1>1. IsFiniteSet(1 .. Len(s)) /\ DOMAIN s = 1 .. Len(s)
  BY FS_Interval, LenProperties
<1>2. HealthReplies(s) \subseteq 1 .. Len(s)
  BY <1>1 DEF HealthReplies
<1> QED
  BY <1>1, <1>2, FS_Subset, FS_CardinalityType

(* A reply at the end of the socket counts if it is a health reply ...      *)
LEMMA CountAppend ==
  ASSUME NEW s \in Seq(Reply), NEW r \in Reply
  PROVE  /\ Append(s, r) \in Seq(Reply)
         /\ Cardinality(HealthReplies(Append(s, r))) =
              Cardinality(HealthReplies(s)) + (IF IsNodeList(r) THEN 0 ELSE 1)
<1>1. /\ Len(s) \in Nat /\ DOMAIN s = 1 .. Len(s)
      /\ Append(s, r) \in Seq(Reply) /\ DOMAIN Append(s, r) = 1 .. Len(s) + 1
      /\ \A k \in 1 .. Len(s) : Append(s, r)[k] = s[k]
      /\ Append(s, r)[Len(s) + 1] = r
  BY LenProperties
<1>2. CASE IsNodeList(r)
  <2>1. HealthReplies(Append(s, r)) = HealthReplies(s)
    BY <1>1, <1>2 DEF HealthReplies
  <2> QED
    BY <1>1, <1>2, <2>1, HealthRepliesFinite
<1>3. CASE ~ IsNodeList(r)
  <2>1. HealthReplies(Append(s, r)) = HealthReplies(s) \cup {Len(s) + 1}
    BY <1>1, <1>3 DEF HealthReplies
  <2>2. Len(s) + 1 \notin HealthReplies(s)
    BY <1>1 DEF HealthReplies
  <2> QED
    BY <1>1, <1>3, <2>1, <2>2, HealthRepliesFinite, FS_AddElement
<1> QED
  BY <1>2, <1>3

(* ... and one that is read from its head no longer does.                  *)
LEMMA CountTail ==
  ASSUME NEW s \in Seq(Reply), s # <<>>
  PROVE  /\ Head(s) \in Reply /\ Tail(s) \in Seq(Reply)
         /\ Cardinality(HealthReplies(Tail(s))) =
              Cardinality(HealthReplies(s)) - (IF IsNodeList(Head(s)) THEN 0 ELSE 1)
<1>1. /\ Head(s) \in Reply /\ Head(s) = s[1]
      /\ Tail(s) \in Seq(Reply)
      /\ Len(s) \in Nat \ {0} /\ DOMAIN s = 1 .. Len(s)
      /\ DOMAIN Tail(s) = 1 .. Len(s) - 1
      /\ \A k \in 1 .. Len(s) - 1 : Tail(s)[k] = s[k + 1]
  <2>1. /\ Head(s) \in Reply /\ Tail(s) \in Seq(Reply)
        /\ Len(Tail(s)) = Len(s) - 1
        /\ \A k \in 1 .. Len(Tail(s)) : Tail(s)[k] = s[k + 1]
    BY HeadTailProperties
  <2>2. DOMAIN s = 1 .. Len(s) /\ DOMAIN Tail(s) = 1 .. Len(Tail(s)) /\ Len(s) \in Nat \ {0}
    BY <2>1, LenProperties, EmptySeq
  <2> QED
    BY <2>1, <2>2
<1> DEFINE Rest == HealthReplies(s) \ {1}
           shift == [k \in Rest |-> k - 1]
<1>2. IsFiniteSet(Rest)
      /\ Cardinality(Rest) =
           Cardinality(HealthReplies(s)) - (IF IsNodeList(Head(s)) THEN 0 ELSE 1)
  <2>1. 1 \in HealthReplies(s) <=> ~ IsNodeList(Head(s))
    BY <1>1 DEF HealthReplies
  <2> QED
    BY <2>1, HealthRepliesFinite, FS_RemoveElement
<1>3. shift \in Bijection(Rest, HealthReplies(Tail(s)))
  <2>1. \A k \in Rest : k \in 2 .. Len(s) /\ ~ IsNodeList(s[k])
    BY <1>1 DEF HealthReplies
  <2>2. \A k \in Rest : shift[k] \in HealthReplies(Tail(s))
    BY <1>1, <2>1 DEF HealthReplies
  <2>3. \A j, k \in Rest : shift[j] = shift[k] => j = k
    BY <2>1
  <2>4. \A k \in HealthReplies(Tail(s)) : k + 1 \in Rest /\ shift[k + 1] = k
    BY <1>1 DEF HealthReplies
  <2>5. \A k \in HealthReplies(Tail(s)) : \E j \in Rest : shift[j] = k
    BY <2>4
  <2> QED
    BY <2>2, <2>3, <2>5 DEF Bijection, Injection, Surjection, IsInjective
<1>4. Cardinality(HealthReplies(Tail(s))) = Cardinality(Rest)
  <2>1. ExistsBijection(Rest, HealthReplies(Tail(s)))
    BY <1>3 DEF ExistsBijection
  <2> QED
    BY <1>2, <2>1, FS_Bijection
<1> QED
  BY <1>1, <1>2, <1>4

(* The entries of a list are visited in some order: FirstKey finds one.    *)
LEMMA FirstKeyInside ==
  ASSUME NEW S \in SUBSET Slot, S # {}
  PROVE  FirstKey(S) \in S
<1> DEFINE Ranks == {KeyRank(i) : i \in S}
<1>1. \A i \in Slot : KeyRank(i) \in Nat
  BY MaxNumNodesAssumption DEF Slot, KeyRank
<1>2. Ranks \subseteq Nat /\ Ranks # {}
  BY <1>1
<1>3. \E r \in Ranks : \A q \in Ranks : r <= q
  <2>1. \E r \in Ranks : \A q \in Ranks : ~ (<<q, r>> \in OpToRel(<, Nat))
    BY <1>2, WFMin, NatLessThanWellFounded
  <2>2. ASSUME NEW r \in Ranks, NEW q \in Ranks, ~ (<<q, r>> \in OpToRel(<, Nat))
        PROVE  r <= q
    BY <1>2, <2>2 DEF OpToRel
  <2> QED
    BY <2>1, <2>2
<1>4. \E i \in S : \A j \in S : KeyRank(i) <= KeyRank(j)
  BY <1>3
<1> QED
  BY <1>4 DEF FirstKey

-----------------------------------------------------------------------------
(* The inductive invariant behind IMQTypeOK.  It says of the socket that   *)
(* it is a sequence of replies, and of the requests that every one belongs *)
(* to a call of JoinCluster: a call that has not sent its request yet      *)
(* leaves room for one more.                                               *)
MainState ==
  [pc : {"idle", "add", "write", "call", "get", "merge"},
   slot : Slot, list : Listing, left : SUBSET Slot]

MainTypes ==
  /\ started \in BOOLEAN /\ merged \in BOOLEAN /\ own_slots \subseteq Slot
  /\ main \in MainState /\ main.left \subseteq DOMAIN main.list

Joining ==
  /\ joins \in 0 .. MaxJoins /\ asked \in Nat
  /\ asked <= joins
  /\ main.pc \in {"add", "write", "call"} => asked < joins

SocketCounts ==
  /\ socket \in Seq(Reply)
  /\ unread[Leader] = Cardinality(HealthReplies(socket))

TypeInv == TypeOK /\ MainTypes /\ Joining /\ SocketCounts

LEMMA TypeInvIsType == TypeInv => IMQTypeOK
<1> SUFFICES ASSUME TypeInv PROVE IMQTypeOK
  OBVIOUS
<1> USE DEF TypeInv
<1>1. asked \in 0 .. MaxJoins
  BY MaxJoinsAssumption DEF Joining
<1>2. \A k \in DOMAIN socket : socket[k] = HealthReply \/ socket[k].nodes \in LeaderList
  <2>1. \A k \in DOMAIN socket : socket[k] \in Reply
    BY LenProperties DEF SocketCounts
  <2>2. ASSUME NEW r \in Reply PROVE r = HealthReply \/ r.nodes \in LeaderList
    <3>1. CASE r # HealthReply
      <4>1. PICK l \in LeaderList : r = NodesReply(l)
        BY <3>1 DEF Reply
      <4> QED
        BY <4>1, ReplyFacts
    <3> QED
      BY <3>1
  <2> QED
    BY <2>1, <2>2
<1>3. unread[Leader] = Cardinality({k \in DOMAIN socket : ~ IsNodeList(socket[k])})
  BY DEF SocketCounts, HealthReplies
<1> QED
  BY <1>1, <1>2, <1>3 DEF IMQTypeOK, MainTypes, MainState, Joining

(* A list of the leader is a listing, and so is the empty list.            *)
LEMMA ListFacts ==
  /\ NoList \in Listing
  /\ LeaderList \subseteq Listing
  /\ \A l \in Listing : DOMAIN l \subseteq Slot /\ \A i \in DOMAIN l : l[i] \in Node
<1>1. NoList \in [{} -> Node]
  BY DEF NoList
<1>2. NoList \in Listing
  BY <1>1 DEF Listing
<1>3. ASSUME NEW l \in Listing
      PROVE  DOMAIN l \subseteq Slot /\ \A i \in DOMAIN l : l[i] \in Node
  <2>1. PICK S \in SUBSET Slot : l \in [S -> Node]
    BY DEF Listing
  <2> QED
    BY <2>1
<1> QED
  BY <1>2, <1>3, LeaderListAssumption

(* Where the main thread is when it has no list.                           *)
LEMMA MainAtFacts ==
  ASSUME NEW pc \in {"idle", "add", "write", "call", "get", "merge"}, NEW i \in Slot
  PROVE  /\ MainAt(pc) \in MainState
         /\ MainAt(pc).pc = pc /\ MainAt(pc).left = {} /\ MainAt(pc).slot = 0
         /\ [MainAt(pc) EXCEPT !.slot = i] \in MainState
         /\ [MainAt(pc) EXCEPT !.slot = i].pc = pc
         /\ [MainAt(pc) EXCEPT !.slot = i].slot = i
         /\ [MainAt(pc) EXCEPT !.slot = i].left = {}
<1>1. NoList \in Listing /\ 0 \in Slot
  BY ListFacts, MaxNumNodesAssumption DEF Slot
<1> QED
  BY <1>1 DEF MainAt, MainIdle, MainState

(* The step that the main thread takes next, whatever else it holds.       *)
LEMMA MainPc ==
  ASSUME NEW pc, NEW i, NEW l, NEW left
  PROVE  /\ MainIdle.pc = "idle" /\ MainAt(pc).pc = pc
         /\ [MainAt(pc) EXCEPT !.slot = i].pc = pc
         /\ [MainAt(pc) EXCEPT !.list = l, !.left = left].pc = pc
  BY DEF MainAt, MainIdle

LEMMA MainIdleFacts ==
  MainIdle \in MainState /\ MainIdle.pc = "idle" /\ MainIdle.left = {}
<1>1. NoList \in Listing /\ 0 \in Slot
  BY ListFacts, MaxNumNodesAssumption DEF Slot
<1> QED
  BY <1>1 DEF MainIdle, MainState

LEMMA MergeFacts ==
  ASSUME NEW l \in Listing
  PROVE  LET m == [MainAt("merge") EXCEPT !.list = l, !.left = DOMAIN l]
         IN  m \in MainState /\ m.pc = "merge" /\ m.list = l /\ m.left = DOMAIN l
<1>1. NoList \in Listing /\ 0 \in Slot
  BY ListFacts, MaxNumNodesAssumption DEF Slot
<1>2. DOMAIN l \in SUBSET Slot
  BY ListFacts
<1> QED
  BY <1>1, <1>2 DEF MainAt, MainIdle, MainState

LEMMA TypeInvInit == IMQInit => TypeInv
<1> SUFFICES ASSUME IMQInit PROVE TypeInv
  OBVIOUS
<1>1. TypeOK
  BY TypeInit DEF IMQInit
<1>2. main = MainIdle /\ started = FALSE /\ merged = FALSE /\ own_slots = {} /\ joins = 0 /\ asked = 0
  BY DEF IMQInit
<1>2a. MainTypes
  BY <1>2, MainIdleFacts DEF MainTypes
<1>2b. Joining
  BY <1>2, MainIdleFacts, MaxJoinsAssumption DEF Joining
<1>3. SocketCounts
  <2>1. socket \in Seq(Reply) /\ DOMAIN socket = {}
    BY EmptySeq, LenProperties DEF IMQInit
  <2>2. HealthReplies(socket) = {}
    BY <2>1 DEF HealthReplies
  <2>3. unread[Leader] = 0
    BY LeaderAssumption DEF IMQInit, Init
  <2> QED
    BY <2>1, <2>2, <2>3, FS_EmptySet DEF SocketCounts
<1> QED
  BY <1>1, <1>2a, <1>2b, <1>3 DEF TypeInv

(* Steps that leave a conjunct's variables alone.                          *)
LEMMA SameType == TypeOK /\ UNCHANGED vars => TypeOK'
  BY DEF vars, health_vars, peer_vars, channel_vars, TypeOK, Marked

LEMMA SameMain == MainTypes /\ UNCHANGED <<started, main, merged, own_slots>> => MainTypes'
  BY DEF MainTypes

LEMMA SameSocket == SocketCounts /\ UNCHANGED <<unread, socket>> => SocketCounts'
  BY DEF SocketCounts

(* The leader's socket is in step with unread[Leader] when one reply at a  *)
(* time comes or goes.                                                     *)
LEMMA LeaderSocketCounts ==
  ASSUME TypeOK, SocketCounts, LeaderSocket,
         \/ unread' = unread
         \/ \E n \in Peer : unread' = [unread EXCEPT ![n] = @ + 1]
         \/ \E n \in Peer : unread' = [unread EXCEPT ![n] = @ - 1]
  PROVE  SocketCounts'
<1>0. unread \in [Peer -> Nat] /\ Leader \in Peer
  BY LeaderAssumption DEF TypeOK
<1>1. CASE unread'[Leader] = unread[Leader]
  <2>1. UNCHANGED socket
    BY <1>0, <1>1 DEF LeaderSocket
  <2> QED
    BY <1>1, <2>1 DEF SocketCounts
<1>2. CASE unread'[Leader] = unread[Leader] + 1
  <2>1. socket' = Append(socket, HealthReply)
    BY <1>0, <1>2 DEF LeaderSocket
  <2> QED
    BY <1>2, <2>1, CountAppend, ReplyFacts DEF SocketCounts
<1>3. CASE unread'[Leader] = unread[Leader] - 1
  <2>1. socket # <<>> /\ ~ IsNodeList(Head(socket)) /\ socket' = Tail(socket)
    BY <1>0, <1>3 DEF LeaderSocket
  <2> QED
    BY <1>3, <2>1, CountTail DEF SocketCounts
<1> QED
  BY <1>0, <1>1, <1>2, <1>3

(* The main thread's writes to the table.                                  *)
LEMMA TypeWithTable ==
  ASSUME TypeOK, nodes_' \in Table,
         UNCHANGED <<health_vars, worker, peer_vars, channel_vars>>
  PROVE  TypeOK'
  BY DEF health_vars, peer_vars, channel_vars, TypeOK, Marked

LEMMA TypeInvMain ==
  ASSUME TypeInv, MainThread
  PROVE  TypeInv'
<1> USE DEF TypeInv
<1>0. 0 \in Slot /\ Leader \in Node
  BY MaxNumNodesAssumption, LeaderAssumption, NodeFacts DEF Slot
<1>1. CASE AddLeaderFind
  <2>1. /\ main' \in MainState /\ main'.left = {}
        /\ main'.pc \in {"write", "call"}
    <3>1. CASE FreeSlots(nodes_) = {}
      BY <1>0, <1>1, <3>1, MainAtFacts DEF AddLeaderFind
    <3>2. CASE FreeSlots(nodes_) # {}
      <4>1. First(FreeSlots(nodes_)) \in Slot
        BY <3>2, FreeSlotType DEF TypeOK
      <4>2. main' = [MainAt("write") EXCEPT !.slot = First(FreeSlots(nodes_))]
        BY <1>1, <3>2 DEF AddLeaderFind
      <4> QED
        BY <4>1, <4>2, MainAtFacts
    <3> QED
      BY <3>1, <3>2
  <2>2. MainTypes'
    BY <1>1, <2>1 DEF AddLeaderFind, MainTypes
  <2>3. Joining'
    BY <1>1, <2>1 DEF AddLeaderFind, Joining
  <2> QED
    BY <1>1, <2>2, <2>3, SameType, SameSocket DEF AddLeaderFind, vars, channel_vars
<1>2. CASE AddLeaderWrite
  <2>1. main' \in MainState /\ main'.left = {} /\ main'.pc = "call"
    BY <1>0, <1>2, MainAtFacts DEF AddLeaderWrite
  <2>2. MainTypes'
    BY <1>2, <2>1 DEF AddLeaderWrite, MainTypes
  <2>3. Joining'
    BY <1>2, <2>1 DEF AddLeaderWrite, Joining
  <2>4. nodes_' \in Table
    BY <1>0, <1>2, AddNodeAtType DEF AddLeaderWrite, MainTypes, MainState, TypeOK
  <2>5. TypeOK'
    BY <1>2, <2>4, TypeWithTable DEF AddLeaderWrite
  <2> QED
    BY <1>2, <2>2, <2>3, <2>5, SameSocket DEF AddLeaderWrite, channel_vars
<1>3. CASE CallLeader
  <2>1. main' \in MainState /\ main'.left = {} /\ main'.pc = "get"
    BY <1>0, <1>3, MainAtFacts DEF CallLeader
  <2>2. MainTypes'
    BY <1>3, <2>1 DEF CallLeader, MainTypes
  <2>3. Joining'
    BY <1>3, <2>1 DEF CallLeader, Joining
  <2> QED
    BY <1>3, <2>2, <2>3, SameType, SameSocket DEF CallLeader, vars, channel_vars
<1>4. CASE LeaderNotFound \/ GetTimesOut \/ MergeDone
  <2>0. /\ main' = MainIdle
        /\ UNCHANGED <<vars, started, joins, asked, socket, merged, own_slots>>
    BY <1>4 DEF LeaderNotFound, GetTimesOut, MergeDone
  <2>1. MainTypes'
    BY <2>0, MainIdleFacts DEF MainTypes
  <2>2. Joining'
    BY <2>0, MainIdleFacts DEF Joining
  <2> QED
    BY <2>0, <2>1, <2>2, SameType, SameSocket DEF vars, channel_vars
<1>5. CASE GetNodeList
  <2>1. Head(socket) \in Reply /\ IsNodeList(Head(socket))
    BY <1>5, CountTail DEF GetNodeList, SocketCounts
  <2>2. Head(socket).nodes \in Listing
    BY <2>1, ReplyFacts, ListFacts
  <2>3. /\ main' \in MainState /\ main'.pc = "merge"
        /\ main'.left \subseteq DOMAIN main'.list
    <3>1. main' = [MainAt("merge") EXCEPT !.list = Head(socket).nodes,
                                          !.left = DOMAIN Head(socket).nodes]
      BY <1>5 DEF GetNodeList
    <3> QED
      BY <2>2, <3>1, MergeFacts
  <2>4. MainTypes'
    BY <1>5, <2>3 DEF GetNodeList, MainTypes
  <2>5. Joining'
    BY <1>5, <2>3 DEF GetNodeList, Joining
  <2>6. SocketCounts'
    <3>1. socket' = Tail(socket) /\ socket # <<>> /\ UNCHANGED unread
      BY <1>5 DEF GetNodeList, vars, channel_vars
    <3> QED
      BY <2>1, <3>1, CountTail, HealthRepliesFinite DEF SocketCounts
  <2> QED
    BY <1>5, <2>4, <2>5, <2>6, SameType DEF GetNodeList
<1>6. CASE GetOtherReply
  <2>1. MainTypes'
    BY <1>6, MainIdleFacts DEF GetOtherReply, MainTypes
  <2>2. Joining'
    BY <1>6, MainIdleFacts DEF GetOtherReply, Joining
  <2>3. socket # <<>> /\ ~ IsNodeList(Head(socket)) /\ socket' = Tail(socket)
    BY <1>6 DEF GetOtherReply
  <2>4. /\ Tail(socket) \in Seq(Reply)
        /\ Cardinality(HealthReplies(socket)) = Cardinality(HealthReplies(Tail(socket))) + 1
        /\ Cardinality(HealthReplies(Tail(socket))) \in Nat
    <3>1. /\ Tail(socket) \in Seq(Reply)
          /\ Cardinality(HealthReplies(Tail(socket))) = Cardinality(HealthReplies(socket)) - 1
      BY <2>3, CountTail DEF SocketCounts
    <3>2. /\ Cardinality(HealthReplies(socket)) \in Nat
          /\ Cardinality(HealthReplies(Tail(socket))) \in Nat
      BY <3>1, HealthRepliesFinite DEF SocketCounts
    <3> QED
      BY <3>1, <3>2
  <2>5. /\ unread' = [unread EXCEPT ![Leader] = @ - 1]
        /\ unread \in [Peer -> Nat] /\ Leader \in Peer /\ unread[Leader] - 1 \in Nat
    BY <1>6, <2>4, LeaderAssumption DEF GetOtherReply, TypeOK, SocketCounts
  <2>6. SocketCounts'
    BY <2>3, <2>4, <2>5 DEF SocketCounts
  <2>7. unread' \in [Peer -> Nat]
    BY <2>5
  <2>8. TypeOK'
    BY <1>6, <2>7 DEF GetOtherReply, TypeOK, Marked, health_vars, peer_vars
  <2> QED
    BY <2>1, <2>2, <2>6, <2>8
<1>7. CASE MergeEntry
  <2>0. main \in MainState /\ main.left # {} /\ main.left \subseteq DOMAIN main.list
    BY <1>7 DEF MergeEntry, MainTypes
  <2> DEFINE i == FirstKey(main.left)
  <2>1. i \in main.left /\ i \in Slot /\ main.list[i] \in Node
    BY <2>0, FirstKeyInside, ListFacts DEF MainState
  <2>2. nodes_' \in Table
    BY <1>7, <2>1, AddNodeAtType DEF MergeEntry, TypeOK
  <2>3. TypeOK'
    BY <1>7, <2>2, TypeWithTable DEF MergeEntry
  <2>4. /\ main' \in MainState /\ main'.pc = main.pc
        /\ main'.list = main.list /\ main'.left \subseteq main.left
    BY <1>7, <2>0 DEF MergeEntry, MainState
  <2>5. MainTypes'
    <3>1. own_slots' \subseteq Slot
      BY <1>7, <2>1 DEF MergeEntry, MainTypes
    <3> QED
      BY <1>7, <2>0, <2>4, <3>1 DEF MergeEntry, MainTypes
  <2>6. Joining'
    BY <1>7, <2>4 DEF MergeEntry, Joining
  <2> QED
    BY <1>7, <2>3, <2>5, <2>6, SameSocket DEF MergeEntry, channel_vars
<1> QED
  BY <1>1, <1>2, <1>3, <1>4, <1>5, <1>6, <1>7 DEF MainThread

LEMMA TypeInvCaller ==
  ASSUME TypeInv, Run \/ JoinCluster
  PROVE  TypeInv'
<1> USE DEF TypeInv
<1>1. CASE Run
  <2>1. MainTypes' /\ Joining'
    BY <1>1 DEF Run, MainTypes, Joining, main_vars
  <2> QED
    BY <1>1, <2>1, SameType, SameSocket DEF Run, vars, channel_vars
<1>2. CASE JoinCluster
  <2>1. /\ main' \in MainState /\ main'.left = {} /\ main'.pc \in {"add", "call"}
    <3>1. 0 \in Slot
      BY MaxNumNodesAssumption DEF Slot
    <3> QED
      BY <1>2, <3>1, MainAtFacts DEF JoinCluster
  <2>2. MainTypes'
    BY <1>2, <2>1 DEF JoinCluster, MainTypes
  <2>3. Joining'
    BY <1>2, <2>1, MaxJoinsAssumption DEF JoinCluster, Joining
  <2> QED
    BY <1>2, <2>2, <2>3, SameType, SameSocket DEF JoinCluster, vars, channel_vars
<1> QED
  BY <1>1, <1>2

LEMMA TypeInvLeader ==
  ASSUME TypeInv, AnswerJoin \/ LoseJoin
  PROVE  TypeInv'
<1> USE DEF TypeInv
<1>1. asked' = asked - 1 /\ asked > 0 /\ UNCHANGED <<vars, started, main, joins, merged, own_slots>>
  BY DEF AnswerJoin, LoseJoin
<1>2. MainTypes' /\ Joining'
  BY <1>1 DEF MainTypes, Joining
<1>3. UNCHANGED unread
  BY <1>1 DEF vars, channel_vars
<1>4. CASE AnswerJoin
  <2>1. PICK l \in LeaderList : socket' = Append(socket, NodesReply(l))
    BY <1>4 DEF AnswerJoin
  <2>2. SocketCounts'
    BY <1>3, <2>1, CountAppend, ReplyFacts, HealthRepliesFinite DEF SocketCounts
  <2> QED
    BY <1>1, <1>2, <2>2, SameType
<1>5. CASE LoseJoin
  BY <1>1, <1>2, <1>3, <1>5, SameType, SameSocket DEF LoseJoin
<1> QED
  BY <1>4, <1>5

LEMMA TypeInvCheckReads ==
  ASSUME TypeInv, CheckReadsNodeList
  PROVE  TypeInv'
<1> USE DEF TypeInv
<1>1. /\ hpc = "waiting" /\ target \in Peer
      /\ socket # <<>> /\ IsNodeList(Head(socket)) /\ socket' = Tail(socket)
      /\ UNCHANGED unread
  BY LeaderAssumption DEF CheckReadsNodeList, channel_vars
<1>2. CallbackTypes
  BY <1>1, HealthyCallbackType DEF CheckReadsNodeList
<1>3. streak' \in [Peer -> Nat]
  BY <1>1 DEF CheckReadsNodeList, TypeOK
<1>4. TypeOK'
  BY <1>1, <1>2, <1>3, NodeFacts
     DEF CheckReadsNodeList, TypeOK, Marked, CallbackTypes, peer_vars, channel_vars
<1>5. MainTypes' /\ Joining'
  BY DEF CheckReadsNodeList, MainTypes, Joining, main_vars
<1>6. SocketCounts'
  BY <1>1, CountTail, HealthRepliesFinite DEF SocketCounts
<1> QED
  BY <1>4, <1>5, <1>6

LEMMA TypeInvHealth ==
  ASSUME TypeInv, HealthStep
  PROVE  TypeInv'
<1> USE DEF TypeInv
<1>1. HealthThread /\ LeaderSocket /\ UNCHANGED <<started, main_vars>>
  BY DEF HealthStep
<1>2. TypeOK'
  BY <1>1, TypeHealthThread
<1>3. unread' = unread \/ \E n \in Peer : unread' = [unread EXCEPT ![n] = @ - 1]
  <2>1. CASE CheckAnswered
    <3>1. target \in Peer
      BY <2>1 DEF CheckAnswered, TypeOK
    <3> QED
      BY <2>1, <3>1 DEF CheckAnswered
  <2>2. CASE ~ CheckAnswered
    BY <1>1, <2>2 DEF HealthThread, BeginRound, SkipSelf, CheckNode, CallNode, NodeNotFound, EndRound,
                      CheckTimedOut, CheckAbandoned, Evict, channel_vars
  <2> QED
    BY <2>1, <2>2
<1>4. SocketCounts'
  BY <1>1, <1>3, LeaderSocketCounts
<1>5. MainTypes' /\ Joining'
  BY <1>1 DEF MainTypes, Joining, main_vars
<1> QED
  BY <1>2, <1>4, <1>5

LEMMA TypeInvWorker ==
  ASSUME TypeInv, NEW w \in Worker, WorkerThread(w)
  PROVE  TypeInv'
<1> USE DEF TypeInv
<1>1. /\ WorkerStep(w) \/ ServeJoin(w)
      /\ UNCHANGED <<started, main_vars, socket>>
  BY DEF WorkerThread
<1>2. TypeOK'
  BY <1>1, TypeWorker
<1>3. UNCHANGED unread
  BY <1>1 DEF WorkerStep, ServeJoin, CheckRegistered, FindSlot, WriteSlot, SendReply, channel_vars
<1>4. MainTypes' /\ Joining'
  BY <1>1 DEF MainTypes, Joining, main_vars
<1> QED
  BY <1>1, <1>2, <1>3, <1>4, SameSocket

LEMMA TypeInvPeer ==
  ASSUME TypeInv, PeerOrNetwork
  PROVE  TypeInv'
<1> USE DEF TypeInv
<1>1. PICK n \in Peer : PeerStep(n) /\ LeaderSocket /\ UNCHANGED <<started, main_vars>>
  BY DEF PeerOrNetwork
<1>2. TypeOK'
  BY <1>1, TypePeer
<1>3. unread' = unread \/ unread' = [unread EXCEPT ![n] = @ + 1]
  BY <1>1 DEF PeerStep, Join, AnswerCheck, Crash, Disconnect, Restart, channel_vars
<1>4. SocketCounts'
  BY <1>1, <1>3, LeaderSocketCounts
<1>5. MainTypes' /\ Joining'
  BY <1>1 DEF MainTypes, Joining, main_vars
<1> QED
  BY <1>2, <1>4, <1>5

LEMMA TypeInvAlways == IMQSpec => []TypeInv
<1>1. TypeInv /\ [IMQNext]_imq_vars => TypeInv'
  <2> SUFFICES ASSUME TypeInv, [IMQNext]_imq_vars PROVE TypeInv'
    OBVIOUS
  <2>1. CASE UNCHANGED imq_vars
    <3>1. UNCHANGED <<vars, started, main, joins, asked, merged, own_slots, socket>>
      BY <2>1 DEF imq_vars, main_vars
    <3>2. UNCHANGED unread
      BY <3>1 DEF vars, channel_vars
    <3>3. TypeOK' /\ MainTypes' /\ SocketCounts'
      BY <3>1, <3>2, SameType, SameMain, SameSocket DEF TypeInv
    <3> QED
      BY <3>1, <3>3 DEF TypeInv, Joining
  <2>2. CASE \E w \in Worker : WorkerThread(w)
    BY <2>2, TypeInvWorker
  <2> QED
    BY <2>1, <2>2, TypeInvCaller, TypeInvMain, TypeInvHealth, TypeInvCheckReads,
       TypeInvLeader, TypeInvPeer DEF IMQNext
<1> QED
  BY TypeInvInit, <1>1, PTL DEF IMQSpec

(* Type correctness of a node that joins: the table keeps members only,    *)
(* whatever lists the leader answers with, a call of JoinCluster sends at  *)
(* most one request, and the socket of the leader holds the health replies *)
(* that Health counts, whoever reads them (Cluster.cpp:23-46,              *)
(* 60-74).                                                                 *)
THEOREM IMQTypeCorrect == IMQSpec => []IMQTypeOK
  BY TypeInvAlways, TypeInvIsType, PTL

-----------------------------------------------------------------------------
(* The node's own entry.  Before a merge the main thread writes to the     *)
(* table only what a worker would: a new member, in a slot that was free   *)
(* when it looked, which slot 0 never is.                                  *)
SelfInv ==
  ~ merged => KnowsSelf /\ (main.pc = "write" => main.slot # 0)

LEMMA SelfInvMain ==
  ASSUME TypeInv, SelfInv, MainThread
  PROVE  SelfInv'
<1> SUFFICES ASSUME ~ merged' PROVE (KnowsSelf /\ (main.pc = "write" => main.slot # 0))'
  BY DEF SelfInv
<1>0. ~ merged /\ 0 \in Slot
  BY MaxNumNodesAssumption
     DEF Slot, MainThread, AddLeaderFind, AddLeaderWrite, CallLeader, LeaderNotFound,
         GetNodeList, GetOtherReply, GetTimesOut, MergeEntry, MergeDone
<1>1. KnowsSelf /\ (main.pc = "write" => main.slot # 0)
  BY <1>0 DEF SelfInv
<1>2. CASE AddLeaderFind
  <2>1. KnowsSelf'
    BY <1>1, <1>2 DEF AddLeaderFind, KnowsSelf, vars, health_vars
  <2>2. CASE FreeSlots(nodes_) = {}
    BY <1>0, <1>2, <2>1, <2>2, MainAtFacts DEF AddLeaderFind
  <2>3. CASE FreeSlots(nodes_) # {}
    <3>1. First(FreeSlots(nodes_)) \in Slot /\ First(FreeSlots(nodes_)) # 0
      BY <1>1, <2>3, FreeSlotType, NodeFacts DEF TypeInv, TypeOK, KnowsSelf
    <3>2. main' = [MainAt("write") EXCEPT !.slot = First(FreeSlots(nodes_))]
      BY <1>2, <2>3 DEF AddLeaderFind
    <3> QED
      BY <2>1, <3>1, <3>2, MainAtFacts
  <2> QED
    BY <2>2, <2>3
<1>3. CASE AddLeaderWrite
  <2>1. main.slot \in Slot /\ main.slot # 0
    BY <1>1, <1>3 DEF AddLeaderWrite, TypeInv, MainTypes, MainState
  <2>2. nodes_'[0] = nodes_[0]
    BY <1>0, <1>3, <2>1 DEF AddLeaderWrite, AddNodeAt, TypeInv, TypeOK, Table
  <2>3. KnowsSelf'
    BY <1>1, <1>3, <2>2 DEF AddLeaderWrite, KnowsSelf, health_vars
  <2> QED
    BY <1>0, <1>3, <2>3, MainAtFacts DEF AddLeaderWrite
<1>4. CASE CallLeader \/ LeaderNotFound \/ GetNodeList \/ GetOtherReply \/ GetTimesOut \/ MergeDone
  <2>1. /\ UNCHANGED <<nodes_, health_vars, worker>>
        /\ \/ main' = MainAt("get") \/ main' = MainIdle
           \/ main' = [MainAt("merge") EXCEPT !.list = Head(socket).nodes,
                                              !.left = DOMAIN Head(socket).nodes]
    BY <1>4 DEF CallLeader, LeaderNotFound, GetNodeList, GetOtherReply, GetTimesOut, MergeDone, vars
  <2>2. KnowsSelf'
    BY <1>1, <2>1 DEF KnowsSelf, health_vars
  <2>3. main'.pc # "write"
    <3>1. CASE main' = MainAt("get")
      <4>1. main'.pc = "get"
        BY <3>1, MainPc, Zenon
      <4> QED
        BY <4>1
    <3>2. CASE main' = MainIdle
      BY <3>2 DEF MainIdle
    <3>3. CASE main' = [MainAt("merge") EXCEPT !.list = Head(socket).nodes,
                                               !.left = DOMAIN Head(socket).nodes]
      <4>1. \A l, left : [MainAt("merge") EXCEPT !.list = l, !.left = left].pc = "merge"
        BY MainPc, Zenon
      <4> DEFINE m(l, left) == [MainAt("merge") EXCEPT !.list = l, !.left = left]
      <4>2. PICK l, left : main' = m(l, left)
        BY <3>3, Zenon
      <4>3. m(l, left).pc = "merge"
        BY <4>1
      <4> HIDE DEF m
      <4> QED
        BY <4>2, <4>3
    <3> QED
      BY <2>1, <3>1, <3>2, <3>3
  <2> QED
    BY <2>2, <2>3
<1>5. CASE MergeEntry
  BY <1>0, <1>5 DEF MergeEntry
<1> QED
  BY <1>2, <1>3, <1>4, <1>5 DEF MainThread

LEMMA SelfInvStep ==
  ASSUME TypeInv, SelfInv, [IMQNext]_imq_vars
  PROVE  SelfInv'
<1>1. CASE Run \/ AnswerJoin \/ LoseJoin \/ UNCHANGED imq_vars
  BY <1>1 DEF Run, AnswerJoin, LoseJoin, imq_vars, main_vars, vars, health_vars, SelfInv, KnowsSelf
<1>2. CASE JoinCluster
  BY <1>2 DEF JoinCluster, MainAt, MainIdle, vars, health_vars, SelfInv, KnowsSelf
<1>3. CASE CheckReadsNodeList
  BY <1>3, NodeFacts DEF CheckReadsNodeList, HealthyNodeCallback, CheckOver, main_vars, SelfInv, KnowsSelf
<1>4. CASE HealthStep
  <2>1. HealthThread /\ UNCHANGED <<main, merged>>
    BY <1>4 DEF HealthStep, main_vars
  <2>2. KnowsSelf => KnowsSelf'
    BY <2>1, SelfHealthThread DEF TypeInv
  <2> QED
    BY <2>1, <2>2 DEF SelfInv
<1>5. ASSUME NEW w \in Worker, WorkerThread(w)
      PROVE  SelfInv'
  <2>1. (WorkerStep(w) \/ ServeJoin(w)) /\ UNCHANGED <<main, merged>>
    BY <1>5 DEF WorkerThread, main_vars
  <2>2. KnowsSelf => KnowsSelf'
    BY <2>1, SelfWorker DEF TypeInv
  <2> QED
    BY <2>1, <2>2 DEF SelfInv
<1>6. CASE PeerOrNetwork
  BY <1>6 DEF PeerOrNetwork, PeerStep, Join, AnswerCheck, Crash, Disconnect, Restart,
              health_vars, main_vars, SelfInv, KnowsSelf
<1> QED
  BY <1>1, <1>2, <1>3, <1>4, <1>5, <1>6, SelfInvMain DEF IMQNext

(* Until a node list is merged, slot 0 holds the node itself: neither the  *)
(* main thread's AddNode(leader), nor a registration or an eviction beside *)
(* it, takes it away (IMQNode.cpp:26, 52, Cluster.cpp:24-27, 60-86).       *)
THEOREM SelfStaysUntilMerge == IMQSpec => []SelfUntilMerge
<1>1. IMQInit => SelfInv
  BY SelfInit DEF IMQInit, MainIdle, SelfInv
<1>2. TypeInv /\ SelfInv /\ [IMQNext]_imq_vars => SelfInv'
  BY SelfInvStep
<1>3. SelfInv => SelfUntilMerge
  BY DEF SelfInv, SelfUntilMerge, KnowsSelf
<1> QED
  BY TypeInvAlways, <1>1, <1>2, <1>3, PTL DEF IMQSpec

-----------------------------------------------------------------------------
(* The retry map counts silence also when health checks of the leader read *)
(* the node lists that were meant for Bootstrap, and Bootstrap the health  *)
(* replies (Cluster.cpp:34, Health.cpp:27-37).                             *)
THEOREM RetriesStaySilence == IMQSpec => []RetriesCountSilence
<1>1. IMQInit => RetriesCountSilence
  BY RetriesInit DEF IMQInit
<1>2. ASSUME TypeInv, RetriesCountSilence, [IMQNext]_imq_vars
      PROVE  RetriesCountSilence'
  <2>1. CASE HealthStep
    BY <1>2, <2>1, RetriesHealthThread DEF HealthStep, TypeInv
  <2>2. CASE CheckReadsNodeList
    BY <1>2, <2>2 DEF CheckReadsNodeList, HealthyNodeCallback, CheckOver, Without,
                      RetriesCountSilence, Marked, TypeInv, TypeOK
  <2>3. CASE UNCHANGED health_vars
    BY <1>2, <2>3 DEF RetriesCountSilence, Marked, health_vars
  <2>4. CASE MainThread
    BY <2>3, <2>4 DEF MainThread, AddLeaderFind, AddLeaderWrite, CallLeader, LeaderNotFound,
         GetNodeList, GetOtherReply, GetTimesOut, MergeEntry, MergeDone, vars
  <2>5. CASE Run \/ JoinCluster \/ AnswerJoin \/ LoseJoin \/ UNCHANGED imq_vars
    BY <2>3, <2>5 DEF Run, JoinCluster, AnswerJoin, LoseJoin, imq_vars, vars
  <2>6. CASE (\E w \in Worker : WorkerThread(w)) \/ PeerOrNetwork
    <3>1. Next
      BY <2>6 DEF Next, WorkerThread, PeerOrNetwork
    <3> QED
      BY <1>2, <3>1, RetriesStep DEF TypeInv
  <2> QED
    BY <1>2, <2>1, <2>2, <2>4, <2>5, <2>6 DEF IMQNext
<1> QED
  BY TypeInvAlways, <1>1, <1>2, PTL DEF IMQSpec

-----------------------------------------------------------------------------
(* The node's own entry after a merge.  In a slot of own_slots it is safe  *)
(* because no thread is about to write there: a worker, the health thread  *)
(* and the main thread's AddNode choose a slot that is free or that holds  *)
(* a peer, and this one holds the node itself.                             *)
Kept(i) == nodes_[i] = Self /\ ~ Chosen(i)

OwnInv ==
  \A i \in own_slots : Kept(i) /\ (main.pc = "write" => main.slot # i)

LEMMA KeptHealthThread ==
  ASSUME TypeOK, NEW i \in Slot, Kept(i), HealthThread
  PROVE  Kept(i)'
<1> USE DEF Kept, Chosen
<1>1. CASE BeginRound \/ SkipSelf \/ CheckNode \/ EndRound
  BY <1>1 DEF BeginRound, SkipSelf, CheckNode, EndRound
<1>2. CASE CheckAnswered \/ CheckAbandoned
  BY <1>2 DEF CheckAnswered, CheckAbandoned, HealthyNodeCallback, CheckOver
<1>3. CASE CheckTimedOut
  <2>1. i \notin SlotToRemove(nodes_, target)
    <3>1. target # Self /\ nodes_ \in Table
      BY NodeAssumption, NodeFacts DEF TypeOK
    <3>2. \A j \in SlotToRemove(nodes_, target) : nodes_[j] = target
      BY <3>1, SlotToRemoveType
    <3> QED
      BY <3>1, <3>2
  <2>2. i \notin found'
    BY <1>3, <2>1 DEF CheckTimedOut, TimedoutNodeCallback, Mark, Count, FindVictim, CheckOver
  <2> QED
    BY <1>3, <2>2 DEF CheckTimedOut
<1>4. CASE Evict
  <2>1. nodes_'[i] = Self
    BY <1>4, ClearSlotsType DEF Evict, TypeOK
  <2> QED
    BY <1>4, <2>1 DEF Evict, CheckOver
<1> QED
  BY <1>1, <1>2, <1>3, <1>4 DEF HealthThread

LEMMA KeptWorker ==
  ASSUME TypeOK, NEW i \in Slot, Kept(i), NEW w \in Worker, WorkerStep(w) \/ ServeJoin(w)
  PROVE  Kept(i)'
<1> USE DEF Kept, Chosen, health_vars
<1>1. CASE ServeJoin(w)
  BY <1>1 DEF ServeJoin, CheckRegistered, TypeOK, Replying
<1>2. CASE FindSlot(w)
  <2>1. FreeSlots(nodes_) # {} => First(FreeSlots(nodes_)) # i
    BY FreeSlotType, NodeFacts DEF TypeOK
  <2> QED
    BY <1>2, <2>1 DEF FindSlot, TypeOK, Replying
<1>3. CASE WriteSlot(w)
  BY <1>3 DEF WriteSlot, AddNodeAt, TypeOK, Table, Replying
<1>4. CASE SendReply(w)
  BY <1>4 DEF SendReply, TypeOK, Idle
<1> QED
  BY <1>1, <1>2, <1>3, <1>4 DEF WorkerStep

(* What the main thread does but for the merge: it goes to its next step,  *)
(* or writes the leader to the slot that it chose.                         *)
LEMMA OwnInvJoin ==
  ASSUME TypeInv, OwnInv, JoinCluster \/ (MainThread /\ ~ MergeEntry)
  PROVE  OwnInv'
<1> USE DEF TypeInv
<1>0. own_slots' = own_slots /\ own_slots \subseteq Slot
  BY DEF JoinCluster, MainThread, AddLeaderFind, AddLeaderWrite, CallLeader, LeaderNotFound,
         GetNodeList, GetOtherReply, GetTimesOut, MergeDone, MainTypes
<1>1. CASE AddLeaderFind
  <2>1. UNCHANGED <<nodes_, found, worker>>
    BY <1>1 DEF AddLeaderFind, vars, health_vars
  <2>2. CASE FreeSlots(nodes_) = {}
    <3>1. main' = MainAt("call")
      BY <1>1, <2>2 DEF AddLeaderFind
    <3>2. main'.pc = "call"
      BY <3>1, MainPc, Zenon
    <3> QED
      BY <1>0, <2>1, <3>2 DEF OwnInv, Kept, Chosen
  <2>3. CASE FreeSlots(nodes_) # {}
    <3>1. /\ First(FreeSlots(nodes_)) \in Slot
          /\ nodes_[First(FreeSlots(nodes_))] = NoNode
      BY <2>3, FreeSlotType DEF TypeOK
    <3>2. main' = [MainAt("write") EXCEPT !.slot = First(FreeSlots(nodes_))]
      BY <1>1, <2>3 DEF AddLeaderFind
    <3>3. main'.slot = First(FreeSlots(nodes_))
      BY <3>1, <3>2, MainAtFacts
    <3> QED
      BY <1>0, <2>1, <3>1, <3>3, NodeFacts DEF OwnInv, Kept, Chosen
  <2> QED
    BY <2>2, <2>3
<1>2. CASE AddLeaderWrite
  <2>1. main.pc = "write" /\ main' = MainAt("call") /\ UNCHANGED <<found, worker>>
    BY <1>2 DEF AddLeaderWrite, health_vars
  <2>2. main'.pc = "call"
    BY <2>1, MainPc, Zenon
  <2>3. \A i \in own_slots : nodes_'[i] = nodes_[i]
    BY <1>0, <1>2, <2>1 DEF AddLeaderWrite, AddNodeAt, OwnInv, TypeOK, Table
  <2> QED
    BY <1>0, <2>1, <2>2, <2>3 DEF OwnInv, Kept, Chosen
<1>3. CASE \/ JoinCluster \/ CallLeader \/ LeaderNotFound \/ GetNodeList
           \/ GetOtherReply \/ GetTimesOut \/ MergeDone
  <2>1. /\ UNCHANGED <<nodes_, found, worker>>
        /\ \/ \E pc \in {"add", "call", "get"} : main' = MainAt(pc)
           \/ main' = MainIdle
           \/ main' = [MainAt("merge") EXCEPT !.list = Head(socket).nodes,
                                              !.left = DOMAIN Head(socket).nodes]
    BY <1>3 DEF JoinCluster, CallLeader, LeaderNotFound, GetNodeList, GetOtherReply, GetTimesOut,
                MergeDone, vars, health_vars
  <2>2. main'.pc # "write"
    <3>1. ASSUME NEW pc \in {"add", "call", "get"}, main' = MainAt(pc)
          PROVE  main'.pc # "write"
      <4>1. main'.pc = pc
        BY <3>1, MainPc, Zenon
      <4> QED
        BY <4>1
    <3>2. CASE main' = MainIdle
      BY <3>2 DEF MainIdle
    <3>3. CASE main' = [MainAt("merge") EXCEPT !.list = Head(socket).nodes,
                                               !.left = DOMAIN Head(socket).nodes]
      <4> DEFINE m(l, left) == [MainAt("merge") EXCEPT !.list = l, !.left = left]
      <4>1. \A l, left : m(l, left).pc = "merge"
        BY MainPc, Zenon
      <4>2. PICK l, left : main' = m(l, left)
        BY <3>3, Zenon
      <4>3. m(l, left).pc = "merge"
        BY <4>1
      <4> HIDE DEF m
      <4> QED
        BY <4>2, <4>3
    <3> QED
      BY <2>1, <3>1, <3>2, <3>3
  <2> QED
    BY <1>0, <2>1, <2>2 DEF OwnInv, Kept, Chosen
<1> QED
  BY <1>1, <1>2, <1>3 DEF MainThread

(* Bootstrap's write: another slot keeps what it holds, and this one is    *)
(* added only if it holds the node itself and nobody had chosen it.        *)
LEMMA OwnInvMerge ==
  ASSUME TypeInv, OwnInv, MergeEntry
  PROVE  OwnInv'
<1>0. /\ main \in MainState /\ main.left # {} /\ main.pc = "merge"
      /\ nodes_ \in [Slot -> Node \cup {NoNode}] /\ own_slots \subseteq Slot
      /\ UNCHANGED <<found, worker>>
  BY DEF MergeEntry, TypeInv, TypeOK, MainTypes, Table, health_vars
<1>1. PICK j \in main.left : j = FirstKey(main.left)
  BY <1>0, FirstKeyInside DEF MainState
<1>2. /\ j \in Slot
      /\ nodes_' = [nodes_ EXCEPT ![j] = main.list[j]]
      /\ main' = [main EXCEPT !.left = main.left \ {j}]
      /\ own_slots' = IF main.list[j] = Self /\ ~ Chosen(j)
                        THEN own_slots \cup {j} ELSE own_slots \ {j}
  BY <1>0, <1>1 DEF MergeEntry, AddNodeAt, MainState
<1>3. main'.pc # "write"
  BY <1>0, <1>2 DEF MainState
<1>4. ASSUME NEW i \in own_slots' PROVE Kept(i)'
  <2>1. CASE i = j
    BY <1>0, <1>2, <1>4, <2>1 DEF Kept, Chosen
  <2>2. CASE i # j
    BY <1>0, <1>2, <1>4, <2>2 DEF OwnInv, Kept, Chosen
  <2> QED
    BY <2>1, <2>2
<1> QED
  BY <1>3, <1>4 DEF OwnInv

LEMMA OwnInvStep ==
  ASSUME TypeInv, OwnInv, [IMQNext]_imq_vars
  PROVE  OwnInv'
<1>0. TypeOK /\ own_slots \subseteq Slot
  BY DEF TypeInv, MainTypes
<1>1. CASE Run \/ AnswerJoin \/ LoseJoin \/ UNCHANGED imq_vars
  BY <1>1 DEF Run, AnswerJoin, LoseJoin, imq_vars, main_vars, vars, health_vars, OwnInv, Kept, Chosen
<1>2. CASE JoinCluster \/ (MainThread /\ ~ MergeEntry)
  BY <1>2, OwnInvJoin
<1>3. CASE MergeEntry
  BY <1>3, OwnInvMerge
<1>4. CASE CheckReadsNodeList
  BY <1>4 DEF CheckReadsNodeList, HealthyNodeCallback, CheckOver, main_vars, OwnInv, Kept, Chosen
<1>5. CASE HealthStep
  <2>1. HealthThread /\ UNCHANGED <<main, own_slots>>
    BY <1>5 DEF HealthStep, main_vars
  <2>2. \A i \in own_slots : Kept(i) => Kept(i)'
    BY <1>0, <2>1, KeptHealthThread
  <2> QED
    BY <2>1, <2>2 DEF OwnInv
<1>6. ASSUME NEW w \in Worker, WorkerThread(w)
      PROVE  OwnInv'
  <2>1. (WorkerStep(w) \/ ServeJoin(w)) /\ UNCHANGED <<main, own_slots>>
    BY <1>6 DEF WorkerThread, main_vars
  <2>2. \A i \in own_slots : Kept(i) => Kept(i)'
    BY <1>0, <2>1, KeptWorker
  <2> QED
    BY <2>1, <2>2 DEF OwnInv
<1>7. CASE PeerOrNetwork
  BY <1>7 DEF PeerOrNetwork, PeerStep, Join, AnswerCheck, Crash, Disconnect, Restart,
              health_vars, main_vars, OwnInv, Kept, Chosen
<1> QED
  BY <1>1, <1>2, <1>3, <1>4, <1>5, <1>6, <1>7 DEF IMQNext

(* A node that has joined stays in its own table, in the slot where the    *)
(* list has it, through all registrations, evictions and further joins,    *)
(* unless one of them had chosen that slot before Bootstrap wrote to it    *)
(* (Cluster.cpp:36-45, 60-86).                                             *)
THEOREM OwnEntryLasts == IMQSpec => []OwnEntryStays
<1>1. IMQInit => OwnInv
  BY DEF IMQInit, OwnInv
<1>2. TypeInv /\ OwnInv /\ [IMQNext]_imq_vars => OwnInv'
  BY OwnInvStep
<1>3. OwnInv => OwnEntryStays
  BY DEF OwnInv, Kept, OwnEntryStays
<1> QED
  BY TypeInvAlways, <1>1, <1>2, <1>3, PTL DEF IMQSpec

-----------------------------------------------------------------------------
(* The leader's channel.  OpenCallers is what is open on it.               *)
OpenCallers == {c \in LeaderCaller : Calling(c)}

LEMMA CallersFacts ==
  /\ "health" \in OpenCallers <=> hpc = "waiting" /\ target = Leader
  /\ "main" \in OpenCallers <=> main.pc = "get"
  /\ OpenCallers \subseteq {"health", "main"}
  BY DEF OpenCallers, LeaderCaller, Calling

LEMMA CallersFactsNext ==
  /\ "health" \in OpenCallers' <=> hpc' = "waiting" /\ target' = Leader
  /\ "main" \in OpenCallers' <=> main'.pc = "get"
  /\ OpenCallers' \subseteq {"health", "main"}
  BY DEF OpenCallers, LeaderCaller, Calling

(* Two sets of these callers with the same members are equal.              *)
LEMMA SameCallers ==
  ASSUME NEW S, NEW T, S \subseteq {"health", "main"}, T \subseteq {"health", "main"},
         "health" \in S <=> "health" \in T, "main" \in S <=> "main" \in T
  PROVE  S = T
<1>1. \A c : c \in S <=> c \in T
  OBVIOUS
<1> QED
  BY <1>1, Zenon

LEMMA ChannelTypes ==
  ASSUME TypeInv
  PROVE  /\ pending[Leader] \in Nat /\ asked \in Nat
         /\ socket \in Seq(Reply) /\ Len(socket) \in Nat
  BY LeaderAssumption, LenProperties DEF TypeInv, TypeOK, Joining, SocketCounts

(* A step that begins or ends neither call, passes no request and leaves   *)
(* the socket as it is.                                                    *)
LEMMA ChannelStutter ==
  ASSUME OpenCallers' = OpenCallers, pending'[Leader] + asked' = pending[Leader] + asked,
         socket' = socket
  PROVE  [LeaderConnection!Next]_(LeaderConnection!vars)
  BY DEF LeaderConnection!vars, OpenCallers

LEMMA ReadFromSocket ==
  ASSUME TypeInv, socket # <<>>, socket' = Tail(socket), NEW c \in LeaderCaller,
         c \in OpenCallers, OpenCallers' = OpenCallers \ {c},
         pending'[Leader] = pending[Leader], asked' = asked
  PROVE  [LeaderConnection!Next]_(LeaderConnection!vars)
<1>1. Len(socket) > 0 /\ Len(socket') = Len(socket) - 1
  BY ChannelTypes, EmptySeq, HeadTailProperties, LenProperties
<1>2. LeaderConnection!ReadReply(c)
  BY <1>1 DEF LeaderConnection!ReadReply, OpenCallers
<1> QED
  BY <1>2 DEF LeaderConnection!Next

LEMMA CallEnds ==
  ASSUME NEW c \in LeaderCaller, c \in OpenCallers, OpenCallers' = OpenCallers \ {c},
         pending'[Leader] = pending[Leader], asked' = asked, socket' = socket
  PROVE  [LeaderConnection!Next]_(LeaderConnection!vars)
<1>1. LeaderConnection!GiveUp(c)
  BY DEF LeaderConnection!GiveUp, OpenCallers
<1> QED
  BY <1>1 DEF LeaderConnection!Next

LEMMA CallBegins ==
  ASSUME TypeInv, NEW c \in LeaderCaller, c \notin OpenCallers, OpenCallers' = OpenCallers \cup {c},
         pending'[Leader] + asked' \in {pending[Leader] + asked, pending[Leader] + asked + 1},
         socket' = socket
  PROVE  [LeaderConnection!Next]_(LeaderConnection!vars)
<1>1. LeaderConnection!Send(c)
  BY DEF LeaderConnection!Send, OpenCallers
<1> QED
  BY <1>1 DEF LeaderConnection!Next

LEMMA RequestAnswered ==
  ASSUME TypeInv, NEW r \in Reply, socket' = Append(socket, r), OpenCallers' = OpenCallers,
         pending'[Leader] + asked' = (pending[Leader] + asked) - 1,
         pending[Leader] + asked > 0
  PROVE  [LeaderConnection!Next]_(LeaderConnection!vars)
<1>1. Len(socket') = Len(socket) + 1
  BY ChannelTypes, AppendProperties
<1>2. LeaderConnection!Answer
  BY <1>1, ChannelTypes DEF LeaderConnection!Answer, OpenCallers
<1> QED
  BY <1>2 DEF LeaderConnection!Next

LEMMA RequestsLost ==
  ASSUME TypeInv, pending'[Leader] + asked' \in 0 .. pending[Leader] + asked,
         OpenCallers' = OpenCallers, socket' = socket
  PROVE  [LeaderConnection!Next]_(LeaderConnection!vars)
<1>1. LeaderConnection!Lose
  BY DEF LeaderConnection!Lose, OpenCallers
<1> QED
  BY <1>1 DEF LeaderConnection!Next

(* A step of the connection of module Health, case by case.                *)
LEMMA ConnectionCases ==
  ASSUME NEW n \in Peer, [Connection(n)!Next]_(Connection(n)!vars),
         pending[n] \in Nat, unread[n] \in Nat
  PROVE  \/ /\ pending'[n] \in 0 .. pending[n]
            /\ unread'[n] = unread[n] /\ OpenTo(n)' = OpenTo(n)
         \/ /\ pending[n] > 0 /\ pending'[n] = pending[n] - 1
            /\ unread'[n] = unread[n] + 1 /\ OpenTo(n)' = OpenTo(n)
         \/ /\ OpenTo(n) = {} /\ OpenTo(n)' = HealthCaller
            /\ pending'[n] \in {pending[n], pending[n] + 1} /\ unread'[n] = unread[n]
         \/ /\ OpenTo(n) = HealthCaller /\ OpenTo(n)' = {}
            /\ pending'[n] = pending[n] /\ unread'[n] \in {unread[n], unread[n] - 1}
<1>1. CASE UNCHANGED Connection(n)!vars
  BY <1>1 DEF Connection!vars, OpenTo
<1>2. CASE Connection(n)!Answer
  BY <1>2 DEF Connection!Answer, OpenTo
<1>3. CASE Connection(n)!Lose
  BY <1>3 DEF Connection!Lose, OpenTo
<1>4. ASSUME NEW c \in HealthCaller, Connection(n)!Send(c)
      PROVE  /\ OpenTo(n) = {} /\ OpenTo(n)' = HealthCaller
             /\ pending'[n] \in {pending[n], pending[n] + 1} /\ unread'[n] = unread[n]
  BY <1>4 DEF Connection!Send, OpenTo, HealthCaller
<1>5. ASSUME NEW c \in HealthCaller, Connection(n)!ReadReply(c) \/ Connection(n)!GiveUp(c)
      PROVE  /\ OpenTo(n) = HealthCaller /\ OpenTo(n)' = {}
             /\ pending'[n] = pending[n] /\ unread'[n] \in {unread[n], unread[n] - 1}
  BY <1>5 DEF Connection!ReadReply, Connection!GiveUp, OpenTo, HealthCaller
<1> QED
  BY <1>1, <1>2, <1>3, <1>4, <1>5 DEF Connection!Next

(* A step of Health: what it does to the leader's connection there, it     *)
(* does to the shared channel, with LeaderSocket for the replies.          *)
LEMMA HealthOnLeaderChannel ==
  ASSUME TypeInv, [Next]_vars, LeaderSocket, UNCHANGED main_vars
  PROVE  [LeaderConnection!Next]_(LeaderConnection!vars)
<1>0. /\ TypeOK /\ Leader \in Peer /\ asked' = asked /\ main' = main
      /\ asked \in Nat /\ pending[Leader] \in Nat /\ unread[Leader] \in Nat
  BY LeaderAssumption, ChannelTypes DEF TypeInv, TypeOK, main_vars
<1>1. [Connection(Leader)!Next]_(Connection(Leader)!vars)
  BY <1>0, ConnectionStep
<1>2. /\ "main" \in OpenCallers' <=> "main" \in OpenCallers
      /\ OpenTo(Leader) = IF "health" \in OpenCallers THEN {"health"} ELSE {}
      /\ OpenTo(Leader)' = IF "health" \in OpenCallers' THEN {"health"} ELSE {}
      /\ OpenCallers \subseteq {"health", "main"} /\ OpenCallers' \subseteq {"health", "main"}
      /\ "health" \in LeaderCaller
  BY <1>0, CallersFacts, CallersFactsNext DEF OpenTo, HealthCaller, LeaderCaller
<1>3. CASE /\ pending'[Leader] \in 0 .. pending[Leader]
           /\ unread'[Leader] = unread[Leader] /\ OpenTo(Leader)' = OpenTo(Leader)
  <2>1. socket' = socket
    BY <1>0, <1>3 DEF LeaderSocket
  <2>2. OpenCallers' = OpenCallers
    BY <1>2, <1>3, SameCallers
  <2>3. pending'[Leader] + asked' \in 0 .. pending[Leader] + asked
    BY <1>0, <1>3
  <2> QED
    BY <2>1, <2>2, <2>3, RequestsLost
<1>4. CASE /\ pending[Leader] > 0 /\ pending'[Leader] = pending[Leader] - 1
           /\ unread'[Leader] = unread[Leader] + 1 /\ OpenTo(Leader)' = OpenTo(Leader)
  <2>1. socket' = Append(socket, HealthReply)
    BY <1>0, <1>4 DEF LeaderSocket
  <2>2. OpenCallers' = OpenCallers
    BY <1>2, <1>4, SameCallers
  <2>3. /\ pending'[Leader] + asked' = (pending[Leader] + asked) - 1
        /\ pending[Leader] + asked > 0
    BY <1>0, <1>4
  <2>4. HealthReply \in Reply
    BY ReplyFacts
  <2> QED
    BY <2>1, <2>2, <2>3, <2>4, RequestAnswered
<1>5. CASE /\ OpenTo(Leader) = {} /\ OpenTo(Leader)' = HealthCaller
           /\ pending'[Leader] \in {pending[Leader], pending[Leader] + 1}
           /\ unread'[Leader] = unread[Leader]
  <2>1. socket' = socket
    BY <1>0, <1>5 DEF LeaderSocket
  <2>2. "health" \notin OpenCallers /\ OpenCallers' = OpenCallers \cup {"health"}
    BY <1>2, <1>5 DEF HealthCaller
  <2>3. pending'[Leader] + asked' \in {pending[Leader] + asked, pending[Leader] + asked + 1}
    BY <1>0, <1>5
  <2> QED
    BY <1>2, <2>1, <2>2, <2>3, CallBegins
<1>6. CASE /\ OpenTo(Leader) = HealthCaller /\ OpenTo(Leader)' = {}
           /\ pending'[Leader] = pending[Leader]
           /\ unread'[Leader] \in {unread[Leader], unread[Leader] - 1}
  <2>1. "health" \in OpenCallers /\ OpenCallers' = OpenCallers \ {"health"}
    BY <1>2, <1>6 DEF HealthCaller
  <2>2. CASE unread'[Leader] = unread[Leader]
    <3>1. socket' = socket
      BY <1>0, <2>2 DEF LeaderSocket
    <3> QED
      BY <1>0, <1>2, <1>6, <2>1, <3>1, CallEnds
  <2>3. CASE unread'[Leader] = unread[Leader] - 1
    <3>1. socket # <<>> /\ socket' = Tail(socket)
      BY <1>0, <2>3 DEF LeaderSocket
    <3> QED
      BY <1>0, <1>2, <1>6, <2>1, <3>1, ReadFromSocket
  <2> QED
    BY <1>6, <2>2, <2>3
<1> QED
  BY <1>0, <1>1, <1>3, <1>4, <1>5, <1>6, ConnectionCases

(* Only CallLeader takes the main thread to the step that waits.           *)
LEMMA MainElsewhere ==
  ASSUME TypeInv,
         \/ JoinCluster \/ AddLeaderFind \/ AddLeaderWrite \/ LeaderNotFound
         \/ GetNodeList \/ GetOtherReply \/ GetTimesOut \/ MergeEntry \/ MergeDone
  PROVE  main'.pc # "get"
<1>1. CASE JoinCluster \/ LeaderNotFound \/ MergeDone \/ GetOtherReply \/ GetTimesOut
           \/ AddLeaderWrite
  <2>1. main' = MainIdle \/ \E pc \in {"call", "add"} : main' = MainAt(pc)
    BY <1>1 DEF JoinCluster, LeaderNotFound, MergeDone, GetOtherReply, GetTimesOut, AddLeaderWrite
  <2>2. main'.pc \in {"idle", "call", "add"}
    BY <2>1, MainPc
  <2> QED
    BY <2>2
<1>2. CASE AddLeaderFind
  <2>1. CASE main' = MainAt("call")
    BY <2>1, MainPc
  <2>2. CASE main' = [MainAt("write") EXCEPT !.slot = First(FreeSlots(nodes_))]
    <3>1. main'.pc = "write"
      BY <2>2, MainPc, Zenon
    <3> QED
      BY <3>1
  <2> QED
    BY <1>2, <2>1, <2>2 DEF AddLeaderFind
<1>3. CASE GetNodeList
  <2>1. main'.pc = "merge"
    BY <1>3, MainPc DEF GetNodeList
  <2> QED
    BY <2>1
<1>4. CASE MergeEntry
  <2>1. main.pc = "merge" /\ main' = [main EXCEPT !.left = main.left \ {FirstKey(main.left)}]
    BY <1>4 DEF MergeEntry
  <2>2. main'.pc = main.pc
    BY <2>1 DEF TypeInv, MainTypes, MainState
  <2> QED
    BY <2>1, <2>2
<1> QED
  BY <1>1, <1>2, <1>3, <1>4

(* The steps of the main thread, and of the network on JoinCluster's call. *)
LEMMA MainOnLeaderChannel ==
  ASSUME TypeInv, JoinCluster \/ MainThread
  PROVE  [LeaderConnection!Next]_(LeaderConnection!vars)
<1>0. "main" \in LeaderCaller
  BY DEF LeaderCaller
<1>1. CASE JoinCluster \/ AddLeaderFind \/ AddLeaderWrite \/ LeaderNotFound \/ MergeEntry \/ MergeDone
  <2>1. /\ hpc' = hpc /\ target' = target /\ pending' = pending /\ asked' = asked
        /\ socket' = socket
    BY <1>1 DEF JoinCluster, AddLeaderFind, AddLeaderWrite, LeaderNotFound, MergeEntry, MergeDone,
         vars, health_vars, channel_vars
  <2>2. main.pc # "get" /\ main'.pc # "get"
    BY <1>1, MainElsewhere DEF JoinCluster, AddLeaderFind, AddLeaderWrite, LeaderNotFound,
         MergeEntry, MergeDone
  <2>3. OpenCallers' = OpenCallers
    BY <2>1, <2>2, CallersFacts, CallersFactsNext, SameCallers
  <2> QED
    BY <2>1, <2>3, ChannelStutter
<1>2. CASE CallLeader
  <2>1. /\ hpc' = hpc /\ target' = target /\ pending' = pending /\ asked' = asked + 1
        /\ socket' = socket /\ main.pc = "call"
    BY <1>2 DEF CallLeader, vars, health_vars, channel_vars
  <2>2. main'.pc = "get"
    BY <1>2, MainPc DEF CallLeader
  <2>3. "main" \notin OpenCallers /\ OpenCallers' = OpenCallers \cup {"main"}
    BY <2>1, <2>2, CallersFacts, CallersFactsNext, SameCallers
  <2>4. pending'[Leader] + asked' = pending[Leader] + asked + 1
    BY <2>1, ChannelTypes
  <2> QED
    BY <1>0, <2>1, <2>3, <2>4, CallBegins
<1>3. CASE GetNodeList \/ GetOtherReply \/ GetTimesOut
  <2>1. /\ hpc' = hpc /\ target' = target /\ pending' = pending /\ asked' = asked
        /\ main.pc = "get"
    BY <1>3 DEF GetNodeList, GetOtherReply, GetTimesOut, vars, health_vars, channel_vars
  <2>2. main'.pc # "get"
    BY <1>3, MainElsewhere
  <2>3. "main" \in OpenCallers /\ OpenCallers' = OpenCallers \ {"main"}
    BY <2>1, <2>2, CallersFacts, CallersFactsNext, SameCallers
  <2>4. \/ socket # <<>> /\ socket' = Tail(socket)
        \/ socket' = socket
    BY <1>3 DEF GetNodeList, GetOtherReply, GetTimesOut
  <2> QED
    BY <1>0, <2>1, <2>3, <2>4, ReadFromSocket, CallEnds
<1> QED
  BY <1>1, <1>2, <1>3 DEF MainThread

LEMMA JoinRequestOnLeaderChannel ==
  ASSUME TypeInv, AnswerJoin \/ LoseJoin
  PROVE  [LeaderConnection!Next]_(LeaderConnection!vars)
<1>1. /\ hpc' = hpc /\ target' = target /\ pending' = pending /\ asked' = asked - 1 /\ asked > 0
      /\ main' = main
  BY DEF AnswerJoin, LoseJoin, vars, health_vars, channel_vars
<1>2. OpenCallers' = OpenCallers
  BY <1>1, CallersFacts, CallersFactsNext, SameCallers
<1>3. /\ pending'[Leader] + asked' = (pending[Leader] + asked) - 1
      /\ pending[Leader] + asked > 0
      /\ pending'[Leader] + asked' \in 0 .. pending[Leader] + asked
  BY <1>1, ChannelTypes
<1>4. CASE AnswerJoin
  <2>1. PICK l \in LeaderList : socket' = Append(socket, NodesReply(l))
    BY <1>4 DEF AnswerJoin
  <2>2. NodesReply(l) \in Reply
    BY ReplyFacts
  <2> QED
    BY <1>2, <1>3, <2>1, <2>2, RequestAnswered
<1>5. CASE LoseJoin
  BY <1>2, <1>3, <1>5, RequestsLost DEF LoseJoin
<1> QED
  BY <1>4, <1>5

LEMMA CheckOnLeaderChannel ==
  ASSUME TypeInv, CheckReadsNodeList
  PROVE  [LeaderConnection!Next]_(LeaderConnection!vars)
<1>1. /\ hpc = "waiting" /\ target = Leader /\ hpc' # "waiting" /\ pending' = pending /\ asked' = asked
      /\ main' = main /\ socket # <<>> /\ socket' = Tail(socket)
  BY DEF CheckReadsNodeList, HealthyNodeCallback, CheckOver, channel_vars, main_vars
<1>2. "health" \in LeaderCaller /\ "health" \in OpenCallers /\ OpenCallers' = OpenCallers \ {"health"}
  BY <1>1, CallersFacts, CallersFactsNext DEF LeaderCaller
<1> QED
  BY <1>1, <1>2, ReadFromSocket

(* The calls of the health thread and of the main thread, and the replies  *)
(* that each of them may take from the other, share the leader's socket as *)
(* RPCChannel has it (RPCResponse.cpp:12-76, Cluster.cpp:34, Health.cpp:26).*)
THEOREM LeaderChannelIsShared == IMQSpec => SharesLeaderChannel
<1>1. IMQInit => LeaderConnection!Init
  <2> SUFFICES ASSUME IMQInit PROVE LeaderConnection!Init
    OBVIOUS
  <2>1. pending[Leader] + asked = 0 /\ Len(socket) = 0
    BY LeaderAssumption DEF IMQInit, Init
  <2>2. hpc # "waiting" /\ main.pc # "get"
    BY DEF IMQInit, Init, MainIdle
  <2> QED
    BY <2>1, <2>2 DEF LeaderConnection!Init, Calling, LeaderCaller
<1>2. TypeInv /\ [IMQNext]_imq_vars => [LeaderConnection!Next]_(LeaderConnection!vars)
  <2> SUFFICES ASSUME TypeInv, [IMQNext]_imq_vars
               PROVE  [LeaderConnection!Next]_(LeaderConnection!vars)
    OBVIOUS
  <2>1. CASE JoinCluster \/ MainThread
    BY <2>1, MainOnLeaderChannel
  <2>2. CASE AnswerJoin \/ LoseJoin
    BY <2>2, JoinRequestOnLeaderChannel
  <2>3. CASE CheckReadsNodeList
    BY <2>3, CheckOnLeaderChannel
  <2>4. CASE HealthStep \/ PeerOrNetwork
    <3>1. [Next]_vars /\ LeaderSocket /\ UNCHANGED main_vars
      BY <2>4 DEF HealthStep, PeerOrNetwork, Next
    <3> QED
      BY <3>1, HealthOnLeaderChannel
  <2>5. CASE Run \/ UNCHANGED imq_vars \/ \E w \in Worker : WorkerThread(w)
    <3>1. /\ hpc' = hpc /\ target' = target /\ pending' = pending /\ asked' = asked
          /\ main' = main /\ socket' = socket
      BY <2>5 DEF Run, imq_vars, main_vars, vars, health_vars, channel_vars, peer_vars,
           WorkerThread, WorkerStep, ServeJoin, FindSlot, WriteSlot, SendReply, CheckRegistered
    <3>2. OpenCallers' = OpenCallers
      BY <3>1, CallersFacts, CallersFactsNext, SameCallers
    <3> QED
      BY <3>1, <3>2, ChannelStutter
  <2> QED
    BY <2>1, <2>2, <2>3, <2>4, <2>5 DEF IMQNext
<1> QED
  BY TypeInvAlways, <1>1, <1>2, PTL DEF IMQSpec, SharesLeaderChannel, LeaderConnection!Spec

=============================================================================
