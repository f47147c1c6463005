------------------------------ MODULE RPCStore -------------------------------
(***************************************************************************)
(* The process-wide store of RPC objects, one per address, as the health   *)
(* thread and a main thread in JoinCluster use it: each looks up the       *)
(* client of a callee, creates and adds it when there is none, calls, and  *)
(* lets go of it.  Nothing is locked.                                      *)
(*                                                                         *)
(* The map is changed by one thread while another reads it.  The outcomes  *)
(* modelled are that a look-up during a write misses an entry that is      *)
(* there, and that one of several writes at once is lost.                  *)
(***************************************************************************)
EXTENDS Integers, FiniteSets

CONSTANTS
  Thread,  \* the threads that make calls
  Addr,    \* the callees
  Self     \* the address of the node's own server

ASSUME StoreAssumption ==
  IsFiniteSet(Thread) /\ Thread # {} /\ IsFiniteSet(Addr) /\ Self \notin Addr

VARIABLES
  rpc_objects_,  \* RPCStore::rpc_objects_, from addresses to objects
  thread,        \* per thread: its step, the callee and the client it holds
  created        \* the clients created so far are 1 .. created

store_vars == <<rpc_objects_, thread, created>>

Server == 0
None == -1
Idle == [pc |-> "idle", addr |-> Self, client |-> None]
Stored == DOMAIN rpc_objects_

(* Calling a null client ends the process.                                 *)
Running == \A t \in Thread : thread[t].pc # "crashed"

-----------------------------------------------------------------------------
(* GetRPCServer, in the node's constructor, adds the server.               *)
Init ==
  /\ rpc_objects_ = [a \in {Self} |-> Server]
  /\ thread = [t \in Thread |-> Idle]
  /\ created = 0

(* An insert writes when the address has no entry.                         *)
Writing(u) == thread[u].pc = "insert" /\ thread[u].addr \notin Stored

MayMiss(t) == \E u \in Thread \ {t} : Writing(u)

-----------------------------------------------------------------------------
GetRPCClient(t, a) ==
  /\ Running /\ thread[t].pc = "idle"
  /\ thread' = [thread EXCEPT ![t] = [pc |-> "has", addr |-> a, client |-> None]]
  /\ UNCHANGED <<rpc_objects_, created>>

(* Mutant: a client is created without looking.                            *)
MutHasRPCObjectNever(t) ==
  /\ Running /\ thread[t].pc = "has"
  /\ thread' = [thread EXCEPT ![t].pc = "new"]
  /\ UNCHANGED <<rpc_objects_, created>>

HasRPCObject(t) ==
  /\ Running /\ thread[t].pc = "has"
  /\ \/ thread[t].addr \in Stored /\ thread' = [thread EXCEPT ![t].pc = "get"]
     \/ /\ thread[t].addr \notin Stored \/ MayMiss(t)
        /\ thread' = [thread EXCEPT ![t].pc = "new"]
  /\ UNCHANGED <<rpc_objects_, created>>

(* GetRPCObject looks twice more; a null pointer is called at once.        *)
GetRPCObject(t) ==
  /\ Running /\ thread[t].pc = "get"
  /\ \/ thread' = [thread EXCEPT ![t].pc = "use", ![t].client = rpc_objects_[thread[t].addr]]
     \/ MayMiss(t) /\ thread' = [thread EXCEPT ![t].pc = "crashed"]
  /\ UNCHANGED <<rpc_objects_, created>>

(* The constructor opens a context and a socket.                           *)
NewClient(t) ==
  /\ Running /\ thread[t].pc = "new"
  /\ created' = created + 1
  /\ thread' = [thread EXCEPT ![t].pc = "add", ![t].client = created + 1]
  /\ UNCHANGED rpc_objects_

AddRPCObject(t) ==
  /\ Running /\ thread[t].pc = "add"
  /\ thread' = [thread EXCEPT ![t].pc = "insert"]
  /\ UNCHANGED <<rpc_objects_, created>>

With(t) == [a \in Stored \cup {thread[t].addr} |->
              IF a = thread[t].addr THEN thread[t].client ELSE rpc_objects_[a]]

(* Mutants: insert replaces an entry that is there; the client is handed   *)
(* out but never added.                                                    *)
MutInsertReplaces(t) ==
  /\ Running /\ thread[t].pc = "insert"
  /\ rpc_objects_' = With(t)
  /\ thread' = [thread EXCEPT ![t].pc = "use"]
  /\ UNCHANGED created

MutInsertForgets(t) ==
  /\ Running /\ thread[t].pc = "insert"
  /\ thread' = [thread EXCEPT ![t].pc = "use"]
  /\ UNCHANGED <<rpc_objects_, created>>

(* insert keeps an entry that is there; the caller has its own client      *)
(* either way.                                                             *)
Insert(t) ==
  /\ Running /\ thread[t].pc = "insert"
  /\ \/ thread[t].addr \notin Stored /\ rpc_objects_' = With(t)
     \/ /\ thread[t].addr \in Stored \/ MayMiss(t)
        /\ UNCHANGED rpc_objects_
  /\ thread' = [thread EXCEPT ![t].pc = "use"]
  /\ UNCHANGED created

(* The last shared_ptr to a client destroys it: terminate() waits for the  *)
(* socket, which the destructor would close afterwards.                    *)
Shared(t) ==
  \/ \E a \in Stored : rpc_objects_[a] = thread[t].client
  \/ \E u \in Thread \ {t} : thread[u].client = thread[t].client

LetGo(t) ==
  /\ Running /\ thread[t].pc = "use" /\ Shared(t)
  /\ thread' = [thread EXCEPT ![t] = Idle]
  /\ UNCHANGED <<rpc_objects_, created>>

DestroyClient(t) ==
  /\ Running /\ thread[t].pc = "use" /\ ~ Shared(t)
  /\ thread' = [thread EXCEPT ![t].pc = "hung"]
  /\ UNCHANGED <<rpc_objects_, created>>

-----------------------------------------------------------------------------
Step(t) ==
  \/ HasRPCObject(t) \/ GetRPCObject(t)
  \/ NewClient(t) \/ AddRPCObject(t) \/ Insert(t)
  \/ LetGo(t) \/ DestroyClient(t)

Next == \E t \in Thread : Step(t) \/ \E a \in Addr : GetRPCClient(t, a)

Spec == Init /\ [][Next]_store_vars

-----------------------------------------------------------------------------
(* Every variable stays in its set.                                        *)
TypeOK ==
  /\ Self \in Stored /\ Stored \subseteq Addr \cup {Self}
  /\ \A a \in Stored : rpc_objects_[a] \in 0 .. created
  /\ thread \in [Thread -> [pc : {"idle", "has", "get", "new", "add", "insert", "use", "hung", "crashed"},
                            addr : Addr \cup {Self}, client : None .. created]]
  /\ created \in Nat

(* A thread that lost a race for a callee hangs when it lets go of its     *)
(* client, but the threads never all hang: the winner goes on.             *)
SomeThreadLives == \E t \in Thread : thread[t].pc # "hung"

(* Connections do not pile up: beyond one per callee there is at most one  *)
(* for each thread that lost a race.                                       *)
ConnectionsBounded == created <= Cardinality(Addr) + Cardinality(Thread) - 1

(* Once a callee has a client in the store, every later caller is given    *)
(* that client, and the server is never replaced.                          *)
StoreIsStable ==
  [][\A a \in Stored : a \in DOMAIN rpc_objects_' /\ rpc_objects_'[a] = rpc_objects_[a]]_store_vars

=============================================================================
