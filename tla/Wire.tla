---------------------------------- MODULE Wire ----------------------------------
(***************************************************************************)
(* What becomes of an address on its way through a cluster.  Nodes join    *)
(* one after the other, each through any node that has joined.  A join     *)
(* request carries the address as a string and a number in a JSON text;    *)
(* the answer carries every member as "host:port", and the joining node    *)
(* takes those apart again: from the second hop on a node knows its peers  *)
(* from lists only.  One node, the traveller, may have any host and port.  *)
(*                                                                         *)
(* Threads, time-outs and lost messages are the subject of other modules:  *)
(* here every request is answered.                                         *)
(***************************************************************************)
EXTENDS Cluster, HostAndPort, JSON

CONSTANTS
  Proc,       \* the processes: 0 is the first node, 1 is the traveller
  Plain,      \* the addresses of the others, by process
  Travelling  \* the addresses that the traveller may have

ASSUME ProcAssumption == {0, 1} \subseteq Proc /\ Cardinality(Proc) <= MAX_NUM_NODES
ASSUME PlainAssumption == \A p \in Proc \ {1} : Plain[p].host # <<>>
ASSUME TravellingAssumption == \A a \in Travelling : a.host # <<>> /\ a.port \in 0 .. WORD - 1
ASSUME EmptyAddressAssumption == NoNode = NoAddress

VARIABLES
  address,  \* what IMQNode was constructed with, by process
  meta,     \* MetaStore::my_host_and_port_, by process
  nodes_,   \* Cluster::nodes_, by process
  status,   \* "alone", "joined", or how JoinCluster threw, by process
  pc,       \* of the join under way: "idle", "request", "reply" or "merge"
  join,     \* the process that is joining, and the leader that it asks
  wire,     \* the text in flight
  sent,     \* history: the value that it was dumped from
  todo      \* the entries of the list that Bootstrap has still to add

vars == <<address, meta, nodes_, status, pc, join, wire, sent, todo>>

NoJoin == [joiner |-> 0, leader |-> 0]

(* An entry with an empty host is an empty slot to every reader, whatever  *)
(* its port.                                                               *)
Entry(a) == IF a.host = <<>> THEN NoNode ELSE a

Register(t, a) == IF NodeInCluster(t, a) THEN t ELSE AddNode(t, a)

(* The constructor takes an address and does not set MetaStore, which is   *)
(* for the program to do: the traveller's may not have done it.            *)
Init ==
  /\ \E a \in Travelling : address = [p \in Proc |-> IF p = 1 THEN a ELSE Plain[p]]
  /\ meta \in {address, [address EXCEPT ![1] = NoAddress]}
  /\ nodes_ = [p \in Proc |-> AddNode(EmptyTable, address[p])]
  /\ status = [p \in Proc |-> IF p = 0 THEN "joined" ELSE "alone"]
  /\ pc = "idle"
  /\ join = NoJoin
  /\ wire = <<>>
  /\ sent = Null
  /\ todo = NoMembers

Send(v) == sent' = v /\ wire' = Dump(v)

GetHostAndPort(p) == meta[p]

(* Bootstrap up to Call: the leader is added, the arguments are dumped.    *)
Request(p, l) ==
  /\ pc = "idle"
  /\ status[p] = "alone" /\ status[l] = "joined"
  /\ nodes_' = [nodes_ EXCEPT ![p] = Register(@, address[l])]
  /\ Send(InitializerList(<< <<<<"host">>, String(GetHostAndPort(p).host)>>,
                             <<<<"port">>, Number(GetHostAndPort(p).port)>>,
                             <<<<"register_node">>, Boolean(TRUE)>> >>))
  /\ pc' = "request"
  /\ join' = [joiner |-> p, leader |-> l]
  /\ UNCHANGED <<address, meta, status, todo>>

(* MessageToParts: arguments that parse() refuses are answered by an error.*)
ReplyError ==
  /\ pc = "request"
  /\ Parse(wire) = Refused
  /\ Send(InitializerList(<< <<<<"error">>, Number(1)>> >>))
  /\ pc' = "reply"
  /\ UNCHANGED <<address, meta, nodes_, status, join, todo>>

(* GetNodesInCluster: the requester is registered and the list is dumped.  *)
Reply ==
  /\ pc = "request"
  /\ Parse(wire) # Refused
  /\ LET j         == Parse(wire)
         requester == Address(Member(j, <<"host">>).value, Member(j, <<"port">>).value % WORD)
         t         == IF Member(j, <<"register_node">>).value
                        THEN Register(nodes_[join.leader], requester)
                        ELSE nodes_[join.leader]
         nodes     == GetNodesWithIdxInCluster(t)
         keys      == {Decimal(i) : i \in DOMAIN nodes}
     IN /\ nodes_' = [nodes_ EXCEPT ![join.leader] = t]
        /\ Send(InitializerList(<< <<<<"nodes">>,
             Object([k \in keys |-> String(ToString(nodes[Stoi(k).value]))])>> >>))
  /\ pc' = "reply"
  /\ UNCHANGED <<address, meta, status, join, todo>>

Threw(exception) ==
  /\ status' = [status EXCEPT ![join.joiner] = exception]
  /\ pc' = "idle"
  /\ join' = NoJoin
  /\ todo' = NoMembers

(* Get(): a text that parse() refuses throws out of JoinCluster; an error  *)
(* is an object without "nodes", so its list is null and has no entries.   *)
ReceiveRefused ==
  /\ pc = "reply"
  /\ Parse(wire) = Refused
  /\ Threw("invalid_argument")
  /\ UNCHANGED <<address, meta, nodes_, wire, sent>>

Receive ==
  /\ pc = "reply"
  /\ Parse(wire) # Refused
  /\ todo' = Members(Member(Parse(wire), <<"nodes">>))
  /\ pc' = "merge"
  /\ UNCHANGED <<address, meta, nodes_, status, join, wire, sent>>

(* One turn of Bootstrap's loop over the list; the index and the address   *)
(* may throw.                                                              *)
MergeEntry ==
  /\ pc = "merge"
  /\ DOMAIN todo # {}
  /\ LET key  == FirstText(DOMAIN todo)
         idx  == Stoi(key)
         node == FromString(todo[key].value)
     IN IF idx.throws # "none" \/ node.throws # "none"
          THEN /\ Threw(IF idx.throws # "none" THEN idx.throws ELSE node.throws)
               /\ UNCHANGED nodes_
          ELSE /\ nodes_' = [nodes_ EXCEPT ![join.joiner] =
                               AddNodeAt(@, idx.value, Entry(node.address))]
               /\ todo' = [k \in DOMAIN todo \ {key} |-> todo[k]]
               /\ UNCHANGED <<status, pc, join>>
  /\ UNCHANGED <<address, meta, wire, sent>>

(* JoinCluster returns.                                                    *)
Joined ==
  /\ pc = "merge"
  /\ DOMAIN todo = {}
  /\ status' = [status EXCEPT ![join.joiner] = "joined"]
  /\ pc' = "idle"
  /\ join' = NoJoin
  /\ UNCHANGED <<address, meta, nodes_, wire, sent, todo>>

Next ==
  \/ \E p, l \in Proc : Request(p, l)
  \/ ReplyError
  \/ Reply
  \/ ReceiveRefused
  \/ Receive
  \/ MergeEntry
  \/ Joined

Spec == Init /\ [][Next]_vars

-----------------------------------------------------------------------------
(* Classes of addresses. *)

Traveller == address[1]

(* No colon in the host, valid UTF-8, and a port that an int can hold.     *)
Sound(a) ==
  /\ ~Occurs(":", a.host)
  /\ UTF8(a.host)
  /\ a.port <= INT_MAX

Known == {address[p] : p \in Proc}

(* What dump() wrote parse() reads back, for every request and reply, with *)
(* quotes, backslashes, control characters and characters of two bytes in  *)
(* a host; text that is not UTF-8, which dump() lets pass, is refused.     *)
MessagesSurvive ==
  pc \in {"request", "reply"} =>
    IF UTF8(wire) THEN Parse(wire) = sent ELSE Parse(wire) = Refused

(* A sound address survives any number of hops: when a node has joined,    *)
(* its table holds addresses of nodes of the cluster only, its own among   *)
(* them if MetaStore has it, and no join ends by an exception.             *)
AddressesSurvive ==
  Sound(Traveller) =>
    \A p \in Proc :
      /\ status[p] \in {"alone", "joined"}
      /\ status[p] = "joined" =>
           /\ \A i \in Slot : nodes_[p][i] \in Known \cup {NoNode}
           /\ meta[p] = address[p] => NodeInCluster(nodes_[p], address[p])

(* JoinCluster throws at a conversion only on account of a colon, of text  *)
(* that is not UTF-8, or of a port that no int can hold, and in each case  *)
(* by the exception of that conversion: a member with such an address is a *)
(* trap for the nodes that join after it.                                  *)
ThrowHasCause ==
  \A p \in Proc :
    /\ status[p] = "out_of_range" =>
         Traveller.port > INT_MAX \/ Occurs(":", Traveller.host)
    /\ status[p] = "invalid_argument" =>
         Occurs(":", Traveller.host) \/ ~UTF8(Traveller.host)

(* An address that belongs to no node gets into a table only by a host     *)
(* with a colon, cut at its first colon; a port is never changed silently  *)
(* on its own.                                                             *)
FalseAddressHasColon ==
  \A p \in Proc, i \in Slot :
    nodes_[p][i] \notin Known \cup {NoNode} =>
      /\ Occurs(":", Traveller.host)
      /\ nodes_[p][i].host \o <<":">> = SubSeq(Traveller.host, 1, Len(nodes_[p][i].host) + 1)

(* A node that joined is in the table of some node of the cluster other    *)
(* than itself, unless its host is not UTF-8: then the leader refuses the  *)
(* request, or its program has not set MetaStore: then the leader takes    *)
(* the empty address for one that it knows.  In both cases JoinCluster     *)
(* returns as if the node had joined.                                      *)
JoinedIsRegistered ==
  \A p \in Proc \ {0} :
    status[p] = "joined" /\ UTF8(address[p].host) /\ meta[p] = address[p] =>
      \E q \in Proc \ {p} : NodeInCluster(nodes_[q], address[p])

=============================================================================
