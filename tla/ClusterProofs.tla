---------------------------- MODULE ClusterProofs ----------------------------
(***************************************************************************)
(* What the operations of the membership table return, for every table,    *)
(* every number of slots and every set of nodes.                           *)
(***************************************************************************)
EXTENDS Cluster, WellFoundedInduction, TLAPS

(* Every set of slots that is not empty has a least element.               *)
LEMMA LeastSlot ==
  ASSUME NEW S \in SUBSET Slot, S # {}
  PROVE  \E i \in S : \A j \in S : i <= j
<1>1. S \subseteq Nat
  BY MaxNumNodesAssumption DEF Slot
<1>2. \E i \in S : \A j \in S : ~ (<<j, i>> \in OpToRel(<, Nat))
  BY <1>1, WFMin, NatLessThanWellFounded
<1>3. \E i \in S : \A j \in S : ~ (j < i)
  <2>1. ASSUME NEW i \in S, NEW j \in S, j < i
        PROVE  <<j, i>> \in OpToRel(<, Nat)
    BY <1>1, <2>1 DEF OpToRel
  <2> QED
    BY <1>2, <2>1, Zenon
<1> QED
  BY <1>1, <1>3

(* A scan from slot 0 that finds something finds the lowest slot that fits *)
(* (the loops of Cluster.cpp stop at the first match).                     *)
LEMMA FirstIsLeast ==
  ASSUME NEW S \in SUBSET Slot, S # {}
  PROVE  First(S) \in S /\ \A j \in S : First(S) <= j
  BY LeastSlot DEF First

(* The table keeps its shape under every operation.                        *)
LEMMA EmptyTableType == EmptyTable \in Table
  BY DEF EmptyTable, Table

LEMMA AddNodeAtType ==
  ASSUME NEW t \in Table, NEW i \in Slot, NEW n \in Node
  PROVE  AddNodeAt(t, i, n) \in Table
  BY DEF AddNodeAt, Table

LEMMA FreeSlotType ==
  ASSUME NEW t \in Table, FreeSlots(t) # {}
  PROVE  First(FreeSlots(t)) \in Slot /\ t[First(FreeSlots(t))] = NoNode
<1>1. FreeSlots(t) \in SUBSET Slot
  BY DEF FreeSlots, SlotsOf
<1>2. First(FreeSlots(t)) \in FreeSlots(t)
  BY <1>1, FirstIsLeast
<1> QED
  BY <1>2 DEF FreeSlots, SlotsOf

LEMMA AddNodeType ==
  ASSUME NEW t \in Table, NEW n \in Node
  PROVE  AddNode(t, n) \in Table
<1>1. CASE FreeSlots(t) = {}
  BY <1>1 DEF AddNode
<1>2. CASE FreeSlots(t) # {}
  BY <1>2, FreeSlotType DEF AddNode, Table
<1> QED
  BY <1>1, <1>2

(* RemoveNode finds at most one slot, and one that holds its argument.     *)
LEMMA SlotToRemoveType ==
  ASSUME NEW t \in Table, NEW n
  PROVE  /\ SlotToRemove(t, n) \subseteq Slot
         /\ \A i \in SlotToRemove(t, n) : t[i] = n
<1>1. CASE NodeInCluster(t, n)
  <2>1. SlotsOf(t, n) \in SUBSET Slot /\ SlotsOf(t, n) # {}
    BY <1>1 DEF NodeInCluster, SlotsOf
  <2>2. First(SlotsOf(t, n)) \in SlotsOf(t, n)
    BY <2>1, FirstIsLeast
  <2> QED
    BY <1>1, <2>1, <2>2 DEF SlotToRemove, SlotsOf
<1>2. CASE ~ NodeInCluster(t, n)
  BY <1>2 DEF SlotToRemove
<1> QED
  BY <1>1, <1>2

LEMMA ClearSlotsType ==
  ASSUME NEW t \in Table, NEW S
  PROVE  /\ ClearSlots(t, S) \in Table
         /\ \A i \in Slot : ClearSlots(t, S)[i] = IF i \in S THEN NoNode ELSE t[i]
  BY DEF ClearSlots, Table

(* The first node to be added to an empty table gets slot 0.               *)
LEMMA FirstAddNode ==
  ASSUME NEW n \in Node
  PROVE  AddNode(EmptyTable, n)[0] = n
<1>1. 0 \in Slot
  BY MaxNumNodesAssumption DEF Slot
<1>2. FreeSlots(EmptyTable) = Slot
  BY DEF FreeSlots, SlotsOf, EmptyTable
<1>3. First(Slot) = 0
  <2>1. First(Slot) \in Slot /\ First(Slot) <= 0
    BY <1>1, FirstIsLeast
  <2> QED
    BY <2>1, MaxNumNodesAssumption DEF Slot
<1> QED
  BY <1>1, <1>2, <1>3 DEF AddNode, EmptyTable

(* The members a listing names are nodes, and so is its first entry.       *)
LEMMA ListingType ==
  ASSUME NEW t \in Table
  PROVE  GetNodesWithIdxInCluster(t) \in Listing
<1>1. \A i \in Slot \ FreeSlots(t) : t[i] \in Node
  BY DEF Table, FreeSlots, SlotsOf
<1>2. GetNodesWithIdxInCluster(t) \in [Slot \ FreeSlots(t) -> Node]
  BY <1>1 DEF GetNodesWithIdxInCluster
<1> QED
  BY <1>2 DEF Listing

LEMMA ListingFirst ==
  ASSUME NEW l \in Listing, DOMAIN l # {}
  PROVE  First(DOMAIN l) \in DOMAIN l /\ l[First(DOMAIN l)] \in Node
<1>1. PICK S \in SUBSET Slot : l \in [S -> Node]
  BY DEF Listing
<1> QED
  BY <1>1, FirstIsLeast

LEMMA ListingWithout ==
  ASSUME NEW l \in Listing, NEW x
  PROVE  [y \in DOMAIN l \ {x} |-> l[y]] \in Listing
<1>1. PICK S \in SUBSET Slot : l \in [S -> Node]
  BY DEF Listing
<1>2. [y \in DOMAIN l \ {x} |-> l[y]] \in [S \ {x} -> Node]
  BY <1>1
<1> QED
  BY <1>2 DEF Listing

=============================================================================
