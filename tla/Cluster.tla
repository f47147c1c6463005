------------------------------- MODULE Cluster -------------------------------
(***************************************************************************)
(* The membership table of one node: class Cluster (src/src/Cluster.cpp).  *)
(* The table is a fixed vector of MAX_NUM_NODES slots; a slot holds the    *)
(* host and port of a member, or the empty HostAndPort.  A node's slot     *)
(* number travels to other nodes, so it matters where a member is stored.  *)
(*                                                                         *)
(* The operators take the table and return the new table: the modules that *)
(* run threads against it decide how many steps an operation takes.        *)
(***************************************************************************)
EXTENDS Integers

CONSTANTS
  MAX_NUM_NODES,   \* number of slots (30 in the code)
  Node,            \* the (host, port) pairs with a non-empty host
  NoNode           \* HostAndPort(): empty host, port 0

ASSUME MaxNumNodesAssumption == MAX_NUM_NODES \in Nat \ {0}
ASSUME NoNodeAssumption == NoNode \notin Node

Slot == 0 .. MAX_NUM_NODES - 1

Table == [Slot -> Node \cup {NoNode}]

(* What GetNodesWithIdxInCluster returns: some slots with their members.   *)
Listing == UNION {[S -> Node] : S \in SUBSET Slot}

EmptyTable == [i \in Slot |-> NoNode]

SlotsOf(t, n) == {i \in Slot : t[i] = n}

FreeSlots(t) == SlotsOf(t, NoNode)

(* Every scan in Cluster.cpp runs from slot 0 up and stops at the first    *)
(* slot that fits.                                                         *)
First(S) == CHOOSE i \in S : \A j \in S : i <= j

-----------------------------------------------------------------------------
NodeInCluster(t, n) == SlotsOf(t, n) # {}

(* AddNode(host, port): the first free slot; a full table is left alone,   *)
(* and the caller is not told.                                             *)
AddNode(t, n) ==
  IF FreeSlots(t) = {} THEN t ELSE [t EXCEPT ![First(FreeSlots(t))] = n]

(* AddNode(idx, host, port): whatever the slot holds is overwritten.       *)
AddNodeAt(t, i, n) == [t EXCEPT ![i] = n]

(* RemoveNode(host, port): the scan finds the first slot that holds the    *)
(* node, if there is one, and clears it; later slots are not looked at.    *)
SlotToRemove(t, n) == IF NodeInCluster(t, n) THEN {First(SlotsOf(t, n))} ELSE {}

ClearSlots(t, S) == [i \in Slot |-> IF i \in S THEN NoNode ELSE t[i]]

(* GetNodesWithIdxInCluster(), and GetNodesInCluster() when it is read in  *)
(* slot order.                                                             *)
GetNodesWithIdxInCluster(t) == [i \in Slot \ FreeSlots(t) |-> t[i]]

=============================================================================
