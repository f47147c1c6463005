--------------------------- MODULE RPCStoreProofs ----------------------------
(***************************************************************************)
(* Theorems about RPCStore, for any number of threads and callees.         *)
(***************************************************************************)
EXTENDS RPCStore, FiniteSetTheorems, TLAPS

-----------------------------------------------------------------------------
(* A client is in the store, or threads hold it.                           *)
InStore(k) == \E a \in Stored : rpc_objects_[a] = k

HasClient(t) == thread[t].pc \in {"add", "insert", "use", "hung"}

(* The thread holds a client that the store does not have (yet).           *)
HoldsOwn(t) == HasClient(t) /\ ~ InStore(thread[t].client)

ThreadInv(t) ==
  /\ thread[t].pc # "idle" => thread[t].addr \in Addr
  /\ thread[t].pc = "get" => thread[t].addr \in Stored
  /\ thread[t].pc \in {"add", "insert", "hung"} => HoldsOwn(t)
  /\ IF HasClient(t) THEN thread[t].client # None ELSE thread[t].client = None

(* Nobody else holds a client that is not in the store ...                 *)
OwnIsAlone ==
  \A t, u \in Thread :
    t # u /\ HoldsOwn(t) => thread[u].client # thread[t].client

(* ... and no client is forgotten.                                         *)
CreatedIsHeld ==
  \A k \in 1 .. created :
    InStore(k) \/ \E t \in Thread : HoldsOwn(t) /\ thread[t].client = k

(* A thread is bound to hang when it will let go of a client of its own    *)
(* that did not, or cannot any more, get into the store.  A thread misses  *)
(* an entry, or loses its write, only while another is about to write a    *)
(* new entry, and that one is not bound to hang: so there is always one.   *)
Doomed(t) ==
  \/ thread[t].pc \in {"new", "add", "insert"} /\ thread[t].addr \in Stored
  \/ thread[t].pc \in {"use", "hung"} /\ HoldsOwn(t)

Inv ==
  /\ TypeOK
  /\ rpc_objects_[Self] = Server
  /\ \A t \in Thread : ThreadInv(t)
  /\ OwnIsAlone
  /\ CreatedIsHeld
  /\ \E t \in Thread : ~ Doomed(t)

-----------------------------------------------------------------------------
LEMMA InvInit == Init => Inv
<1> SUFFICES ASSUME Init PROVE Inv
  OBVIOUS
<1> USE DEF Init, Idle
<1>1. TypeOK
  BY StoreAssumption DEF TypeOK, Stored, Server, None
<1>2. \A t \in Thread : ThreadInv(t) /\ ~ HoldsOwn(t) /\ ~ Doomed(t)
  BY DEF ThreadInv, HoldsOwn, HasClient, Doomed
<1>3. created = 0
  OBVIOUS
<1> QED
  BY <1>1, <1>2, <1>3, StoreAssumption DEF Inv, OwnIsAlone, CreatedIsHeld

LEMMA TypeStep == Inv /\ [Next]_store_vars => TypeOK'
<1> SUFFICES ASSUME Inv, TypeOK, [Next]_store_vars PROVE TypeOK'
  BY DEF Inv
<1> USE DEF TypeOK, Stored, None, Server
<1>1. ASSUME NEW t \in Thread, NEW a \in Addr, GetRPCClient(t, a) PROVE TypeOK'
  BY <1>1 DEF GetRPCClient
<1>2. ASSUME NEW t \in Thread, HasRPCObject(t) PROVE TypeOK'
  BY <1>2 DEF HasRPCObject
<1>3. ASSUME NEW t \in Thread, GetRPCObject(t) PROVE TypeOK'
  <2>1. rpc_objects_[thread[t].addr] \in None .. created
    BY <1>3 DEF GetRPCObject, Inv, ThreadInv
  <2> QED
    BY <1>3, <2>1 DEF GetRPCObject
<1>4. ASSUME NEW t \in Thread, NewClient(t) PROVE TypeOK'
  <2>1. /\ created' = created + 1 /\ created \in Nat /\ rpc_objects_' = rpc_objects_
        /\ thread' = [thread EXCEPT ![t].pc = "add", ![t].client = created + 1]
    BY <1>4 DEF NewClient
  <2>2. /\ None .. created \subseteq None .. created' /\ 0 .. created \subseteq 0 .. created'
        /\ created' \in Nat /\ created + 1 \in None .. created'
    BY <2>1
  <2> QED
    BY <2>1, <2>2
<1>5. ASSUME NEW t \in Thread, AddRPCObject(t) \/ LetGo(t) \/ DestroyClient(t) PROVE TypeOK'
  BY <1>5 DEF AddRPCObject, LetGo, DestroyClient, Idle
<1>6. ASSUME NEW t \in Thread, Insert(t) PROVE TypeOK'
  <2>1. thread[t].addr \in Addr /\ thread[t].client \in 0 .. created
    BY <1>6 DEF Insert, Inv, ThreadInv, HasClient
  <2> QED
    BY <1>6, <2>1 DEF Insert, With
<1>7. CASE UNCHANGED store_vars
  BY <1>7 DEF store_vars
<1> QED
  BY <1>1, <1>2, <1>3, <1>4, <1>5, <1>6, <1>7 DEF Next, Step

(* The steps, by what they do to the store: only an insert that succeeds   *)
(* changes it, and it adds the client of its thread.                       *)
Enters(t) ==
  /\ thread[t].pc = "insert" /\ thread[t].addr \notin Stored
  /\ rpc_objects_' = With(t)
  /\ thread' = [thread EXCEPT ![t].pc = "use"]
  /\ created' = created

LEMMA EntersStore ==
  ASSUME Inv, NEW t \in Thread, Enters(t)
  PROVE  /\ Stored' = Stored \cup {thread[t].addr}
         /\ \A a \in Stored : rpc_objects_'[a] = rpc_objects_[a]
         /\ \A k : InStore(k)' <=> InStore(k) \/ k = thread[t].client
<1>1. /\ Stored' = Stored \cup {thread[t].addr}
      /\ \A a \in Stored : rpc_objects_'[a] = rpc_objects_[a]
      /\ rpc_objects_'[thread[t].addr] = thread[t].client
  BY DEF Enters, With, Stored
<1> QED
  BY <1>1 DEF InStore

LEMMA EntersInv ==
  ASSUME Inv, TypeOK', NEW t \in Thread, Enters(t)
  PROVE  Inv'
<1> DEFINE k == thread[t].client
<1>0. /\ TypeOK /\ ThreadInv(t) /\ HoldsOwn(t) /\ k # None
  BY DEF Inv, Enters, ThreadInv, HasClient
<1>1. /\ Stored' = Stored \cup {thread[t].addr}
      /\ \A a \in Stored : rpc_objects_'[a] = rpc_objects_[a]
      /\ \A j : InStore(j)' <=> InStore(j) \/ j = k
  BY EntersStore
<1>2. /\ thread'[t].pc = "use" /\ thread'[t].client = k /\ thread'[t].addr = thread[t].addr
      /\ \A u \in Thread \ {t} : thread'[u] = thread[u]
  BY <1>0 DEF Enters, TypeOK
<1> HIDE DEF k
<1>3. ASSUME NEW u \in Thread \ {t}
      PROVE  ThreadInv(u)' /\ (HoldsOwn(u)' <=> HoldsOwn(u))
  <2>1. ThreadInv(u) /\ thread'[u] = thread[u]
    BY <1>2 DEF Inv
  <2>2. HoldsOwn(u) => thread[u].client # k
    BY <1>0 DEF Inv, OwnIsAlone, k
  <2>3. HoldsOwn(u)' <=> HoldsOwn(u)
    BY <1>1, <2>1, <2>2 DEF HoldsOwn, HasClient
  <2> QED
    BY <1>1, <2>1, <2>3 DEF ThreadInv, HasClient
<1>4. ThreadInv(t)' /\ ~ HoldsOwn(t)' /\ ~ Doomed(t)'
  BY <1>0, <1>1, <1>2 DEF ThreadInv, HoldsOwn, HasClient, Doomed
<1>5. OwnIsAlone'
  <2> SUFFICES ASSUME NEW u \in Thread, NEW v \in Thread, u # v, HoldsOwn(u)'
               PROVE  thread'[v].client # thread'[u].client
    BY DEF OwnIsAlone
  <2>1. u # t /\ HoldsOwn(u)
    BY <1>3, <1>4
  <2> QED
    BY <1>2, <2>1 DEF Inv, OwnIsAlone, k
<1>6. CreatedIsHeld'
  <2> SUFFICES ASSUME NEW j \in 1 .. created
               PROVE  InStore(j)' \/ \E u \in Thread : HoldsOwn(u)' /\ thread'[u].client = j
    BY DEF CreatedIsHeld, Enters
  <2>1. CASE InStore(j) \/ j = k
    BY <1>1, <2>1
  <2>2. CASE ~ InStore(j) /\ j # k
    <3>1. PICK u \in Thread : HoldsOwn(u) /\ thread[u].client = j
      BY <2>2 DEF Inv, CreatedIsHeld
    <3>2. u # t
      BY <2>2, <3>1 DEF k
    <3> QED
      BY <1>2, <1>3, <3>1, <3>2
  <2> QED
    BY <2>1, <2>2
<1>7. rpc_objects_'[Self] = Server
  BY <1>0, <1>1 DEF Inv, TypeOK
<1> QED
  BY <1>3, <1>4, <1>5, <1>6, <1>7 DEF Inv

(* The other steps: of one thread t, with the store as it is.              *)
Beside(t) ==
  /\ rpc_objects_' = rpc_objects_
  /\ \A u \in Thread \ {t} : thread'[u] = thread[u]

LEMMA BesideInv ==
  ASSUME Inv, TypeOK', NEW t \in Thread, Beside(t), created' = created,
         ThreadInv(t)',
         HoldsOwn(t)' <=> HoldsOwn(t),
         HoldsOwn(t) => thread'[t].client = thread[t].client,
         thread'[t].client \in {thread[t].client, None} \/ InStore(thread'[t].client),
         \E u \in Thread : ~ Doomed(u)'
  PROVE  Inv'
<1>0. Stored' = Stored /\ \A k : InStore(k)' <=> InStore(k)
  BY DEF Beside, Stored, InStore
<1>1. ASSUME NEW u \in Thread \ {t}
      PROVE  ThreadInv(u)' /\ (HoldsOwn(u)' <=> HoldsOwn(u)) /\ thread'[u] = thread[u]
  <2>1. ThreadInv(u) /\ thread'[u] = thread[u]
    BY DEF Inv, Beside
  <2> QED
    BY <1>0, <2>1 DEF ThreadInv, HoldsOwn, HasClient
<1>2. OwnIsAlone'
  <2> SUFFICES ASSUME NEW u \in Thread, NEW v \in Thread, u # v, HoldsOwn(u)'
               PROVE  thread'[v].client # thread'[u].client
    BY DEF OwnIsAlone
  <2>1. HoldsOwn(u) /\ thread'[u].client = thread[u].client
    BY <1>1
  <2>2. thread[v].client # thread[u].client
    BY <2>1 DEF Inv, OwnIsAlone
  <2>3. thread[u].client # None /\ ~ InStore(thread[u].client)
    BY <2>1 DEF HoldsOwn, Inv, ThreadInv
  <2> QED
    BY <1>1, <2>1, <2>2, <2>3
<1>3. CreatedIsHeld'
  BY <1>0, <1>1 DEF Inv, CreatedIsHeld
<1>4. rpc_objects_'[Self] = Server
  BY DEF Inv, Beside
<1> QED
  BY <1>1, <1>2, <1>3, <1>4 DEF Inv

LEMMA NewClientInv ==
  ASSUME Inv, TypeOK', NEW t \in Thread, NewClient(t)
  PROVE  Inv'
<1>0. TypeOK /\ ThreadInv(t) /\ thread[t].pc = "new"
  BY DEF Inv, NewClient
<1>1. /\ rpc_objects_' = rpc_objects_ /\ created' = created + 1 /\ created \in Nat
      /\ \A u \in Thread \ {t} : thread'[u] = thread[u]
      /\ thread'[t].pc = "add" /\ thread'[t].client = created + 1
      /\ thread'[t].addr = thread[t].addr
  BY <1>0 DEF NewClient, TypeOK
<1>2. Stored' = Stored /\ (\A k : InStore(k)' <=> InStore(k)) /\ ~ InStore(created + 1)
  BY <1>0, <1>1 DEF Stored, InStore, TypeOK
<1>3. ASSUME NEW u \in Thread \ {t}
      PROVE  ThreadInv(u)' /\ (HoldsOwn(u)' <=> HoldsOwn(u)) /\ thread[u].client # created + 1
  <2>1. ThreadInv(u) /\ thread'[u] = thread[u] /\ thread[u].client \in None .. created
    BY <1>0, <1>1 DEF Inv, TypeOK
  <2> QED
    BY <1>1, <1>2, <2>1 DEF ThreadInv, HoldsOwn, HasClient, None
<1>4. ThreadInv(t)' /\ HoldsOwn(t)' /\ ~ HoldsOwn(t)
  BY <1>0, <1>1, <1>2 DEF ThreadInv, HoldsOwn, HasClient, None
<1>5. OwnIsAlone'
  <2> SUFFICES ASSUME NEW u \in Thread, NEW v \in Thread, u # v, HoldsOwn(u)'
               PROVE  thread'[v].client # thread'[u].client
    BY DEF OwnIsAlone
  <2>1. CASE u = t \/ v = t
    BY <1>1, <1>3, <2>1
  <2>2. CASE u # t /\ v # t
    BY <1>1, <1>3, <2>2 DEF Inv, OwnIsAlone
  <2> QED
    BY <2>1, <2>2
<1>6. CreatedIsHeld'
  <2> SUFFICES ASSUME NEW k \in 1 .. created + 1
               PROVE  InStore(k)' \/ \E u \in Thread : HoldsOwn(u)' /\ thread'[u].client = k
    BY <1>1 DEF CreatedIsHeld
  <2>1. CASE k = created + 1
    BY <1>1, <1>4, <2>1
  <2>2. CASE k # created + 1
    <3>1. k \in 1 .. created
      BY <1>1, <2>2
    <3>2. InStore(k) \/ \E u \in Thread : HoldsOwn(u) /\ thread[u].client = k
      BY <3>1 DEF Inv, CreatedIsHeld
    <3> QED
      BY <1>1, <1>2, <1>3, <1>4, <3>2
  <2> QED
    BY <2>1, <2>2
<1>7. \E u \in Thread : ~ Doomed(u)'
  <2>1. PICK u \in Thread : ~ Doomed(u)
    BY DEF Inv
  <2>2. CASE u = t
    BY <1>0, <1>1, <1>2, <2>1, <2>2 DEF Doomed
  <2>3. CASE u # t
    BY <1>1, <1>2, <1>3, <2>1, <2>3 DEF Doomed
  <2> QED
    BY <2>2, <2>3
<1>8. rpc_objects_'[Self] = Server
  BY <1>1 DEF Inv
<1> QED
  BY <1>3, <1>4, <1>5, <1>6, <1>7, <1>8 DEF Inv

(* A thread about to write a new entry is not bound to hang, so a thread   *)
(* that misses an entry or loses its write because of it is not the last.  *)
LEMMA MissedByAnother ==
  ASSUME NEW t \in Thread, MayMiss(t), Beside(t)
  PROVE  \E u \in Thread : ~ Doomed(u)'
<1>1. PICK u \in Thread \ {t} : Writing(u)
  BY DEF MayMiss
<1>2. ~ Doomed(u)'
  BY <1>1 DEF Writing, Beside, Stored, Doomed
<1> QED
  BY <1>2

(* A thread that was bound to hang and still is makes no difference.       *)
LEMMA AnotherStays ==
  ASSUME Inv, NEW t \in Thread, Beside(t), Doomed(t) \/ ~ Doomed(t)'
  PROVE  \E u \in Thread : ~ Doomed(u)'
<1>1. PICK u \in Thread : ~ Doomed(u)
  BY DEF Inv
<1>2. CASE u = t
  BY <1>1, <1>2
<1>3. CASE u # t
  BY <1>1, <1>3 DEF Beside, Doomed, HoldsOwn, HasClient, InStore, Stored
<1> QED
  BY <1>2, <1>3

LEMMA StepInv ==
  ASSUME Inv, TypeOK', NEW t \in Thread, Step(t) \/ \E a \in Addr : GetRPCClient(t, a)
  PROVE  Inv'
<1>0. TypeOK /\ ThreadInv(t)
  BY DEF Inv
<1> USE DEF ThreadInv, HoldsOwn, HasClient
<1>1. ASSUME NEW a \in Addr, GetRPCClient(t, a) PROVE Inv'
  <2>1. Beside(t) /\ thread[t].pc = "idle" /\ created' = created
        /\ thread'[t] = [pc |-> "has", addr |-> a, client |-> None]
    BY <1>0, <1>1 DEF GetRPCClient, Beside, TypeOK
  <2>2. \E u \in Thread : ~ Doomed(u)'
    BY <2>1 DEF Doomed
  <2> QED
    BY <1>0, <2>1, <2>2, BesideInv
<1>2. CASE HasRPCObject(t)
  <2>1. /\ Beside(t) /\ thread[t].pc = "has" /\ created' = created
        /\ thread'[t].pc \in {"get", "new"} /\ thread'[t].addr = thread[t].addr
        /\ thread'[t].client = thread[t].client
        /\ thread'[t].pc = "get" => thread[t].addr \in Stored
        /\ thread'[t].pc = "new" => thread[t].addr \notin Stored \/ MayMiss(t)
    BY <1>0, <1>2 DEF HasRPCObject, Beside, TypeOK
  <2>2. Stored' = Stored
    BY <2>1 DEF Beside, Stored
  <2>3. \E u \in Thread : ~ Doomed(u)'
    <3>1. CASE thread'[t].pc = "new" /\ thread[t].addr \in Stored
      BY <2>1, <3>1, MissedByAnother
    <3>2. CASE ~ (thread'[t].pc = "new" /\ thread[t].addr \in Stored)
      BY <2>1, <2>2, <3>2 DEF Doomed
    <3> QED
      BY <3>1, <3>2
  <2> QED
    BY <1>0, <2>1, <2>2, <2>3, BesideInv
<1>3. CASE GetRPCObject(t)
  <2>1. /\ Beside(t) /\ thread[t].pc = "get" /\ created' = created
        /\ thread'[t].addr = thread[t].addr
    BY <1>0, <1>3 DEF GetRPCObject, Beside, TypeOK
  <2>2. Stored' = Stored /\ \A k : InStore(k)' <=> InStore(k)
    BY <2>1 DEF Beside, Stored, InStore
  <2>3. \/ thread'[t].pc = "use" /\ thread'[t].client = rpc_objects_[thread[t].addr]
        \/ thread'[t].pc = "crashed" /\ thread'[t].client = thread[t].client
    BY <1>0, <1>3 DEF GetRPCObject, TypeOK
  <2>4. thread[t].addr \in Stored /\ rpc_objects_[thread[t].addr] # None
    BY <1>0, <2>1 DEF TypeOK, None
  <2>5. InStore(rpc_objects_[thread[t].addr])
    BY <2>4 DEF InStore
  <2>6. ThreadInv(t)' /\ ~ HoldsOwn(t)' /\ ~ Doomed(t)'
    BY <1>0, <2>1, <2>2, <2>3, <2>4, <2>5 DEF Doomed
  <2> QED
    BY <2>1, <2>3, <2>5, <2>6, BesideInv
<1>4. CASE NewClient(t)
  BY <1>4, NewClientInv
<1>5. CASE AddRPCObject(t)
  <2>1. /\ Beside(t) /\ thread[t].pc = "add" /\ created' = created
        /\ thread'[t].pc = "insert" /\ thread'[t].addr = thread[t].addr
        /\ thread'[t].client = thread[t].client
    BY <1>0, <1>5 DEF AddRPCObject, Beside, TypeOK
  <2>2. Stored' = Stored /\ \A k : InStore(k)' <=> InStore(k)
    BY <2>1 DEF Beside, Stored, InStore
  <2>3. \E u \in Thread : ~ Doomed(u)'
    BY <2>1, <2>2, AnotherStays DEF Doomed
  <2> QED
    BY <1>0, <2>1, <2>2, <2>3, BesideInv
<1>6. CASE Insert(t) /\ ~ Enters(t)
  <2>1. /\ Beside(t) /\ thread[t].pc = "insert" /\ created' = created
        /\ thread[t].addr \in Stored \/ MayMiss(t)
        /\ thread'[t].pc = "use" /\ thread'[t].addr = thread[t].addr
        /\ thread'[t].client = thread[t].client
    BY <1>0, <1>6 DEF Insert, Enters, Beside, TypeOK
  <2>2. Stored' = Stored /\ \A k : InStore(k)' <=> InStore(k)
    BY <2>1 DEF Beside, Stored, InStore
  <2>3. \E u \in Thread : ~ Doomed(u)'
    <3>1. CASE thread[t].addr \in Stored
      BY <2>1, <3>1, AnotherStays DEF Doomed
    <3>2. CASE MayMiss(t)
      BY <2>1, <3>2, MissedByAnother
    <3> QED
      BY <2>1, <3>1, <3>2
  <2> QED
    BY <1>0, <2>1, <2>2, <2>3, BesideInv
<1>7. CASE LetGo(t)
  <2>1. /\ Beside(t) /\ thread[t].pc = "use" /\ created' = created
        /\ thread'[t].pc = "idle" /\ thread'[t].client = None
    BY <1>0, <1>7 DEF LetGo, Beside, TypeOK, Idle
  <2>2. ~ HoldsOwn(t)
    BY <1>7 DEF LetGo, Shared, Inv, OwnIsAlone, InStore
  <2>3. \E u \in Thread : ~ Doomed(u)'
    BY <2>1 DEF Doomed
  <2> QED
    BY <1>0, <2>1, <2>2, <2>3, BesideInv
<1>8. CASE DestroyClient(t)
  <2>1. /\ Beside(t) /\ thread[t].pc = "use" /\ created' = created
        /\ thread'[t].pc = "hung" /\ thread'[t].addr = thread[t].addr
        /\ thread'[t].client = thread[t].client
    BY <1>0, <1>8 DEF DestroyClient, Beside, TypeOK
  <2>2. Stored' = Stored /\ \A k : InStore(k)' <=> InStore(k)
    BY <2>1 DEF Beside, Stored, InStore
  <2>3. HoldsOwn(t)
    BY <1>8, <2>1 DEF DestroyClient, Shared, InStore
  <2>4. \E u \in Thread : ~ Doomed(u)'
    BY <2>1, <2>3, AnotherStays DEF Doomed
  <2> QED
    BY <1>0, <2>1, <2>2, <2>3, <2>4, BesideInv
<1>9. CASE Enters(t)
  BY <1>9, EntersInv
<1> QED
  BY <1>1, <1>2, <1>3, <1>4, <1>5, <1>6, <1>7, <1>8, <1>9 DEF Step

LEMMA InvStep == Inv /\ [Next]_store_vars => Inv'
<1> SUFFICES ASSUME Inv, [Next]_store_vars PROVE Inv'
  OBVIOUS
<1>1. TypeOK'
  BY TypeStep
<1>2. CASE Next
  BY <1>1, <1>2, StepInv DEF Next
<1>3. CASE UNCHANGED store_vars
  BY <1>1, <1>3 DEF store_vars, Inv, ThreadInv, OwnIsAlone, CreatedIsHeld, Doomed,
                    HoldsOwn, HasClient, InStore, Stored
<1> QED
  BY <1>2, <1>3

LEMMA Invariance == Spec => []Inv
  BY InvInit, InvStep, PTL DEF Spec

(* Type correctness of the store and its threads.                          *)
THEOREM TypeCorrect == Spec => []TypeOK
<1>1. Inv => TypeOK
  BY DEF Inv
<1> QED
  BY <1>1, Invariance, PTL

(* However the look-ups and inserts of any number of threads interleave,   *)
(* the threads never all wait for ever in the destructor of a client       *)
(* (RPCClientStore.hpp, RPCStore.hpp, RPCClient.cpp).                      *)
THEOREM NotAllHang == Spec => []SomeThreadLives
<1>1. Inv => SomeThreadLives
  BY DEF Inv, ThreadInv, Doomed, SomeThreadLives
<1> QED
  BY <1>1, Invariance, PTL

-----------------------------------------------------------------------------
(* The clients that a function lists are no more than what it is over.     *)
LEMMA ImageBound ==
  ASSUME NEW S, IsFiniteSet(S), NEW f, DOMAIN f = S
  PROVE  LET T == {f[x] : x \in S}
         IN  /\ IsFiniteSet(T) /\ Cardinality(T) \in Nat
             /\ Cardinality(T) <= Cardinality(S)
<1> DEFINE T == {f[x] : x \in S}
           g == [x \in S |-> f[x]]
<1>1. g \in Surjection(S, T)
  BY DEF Surjection
<1>2. IsFiniteSet(T) /\ Cardinality(T) <= Cardinality(S)
  BY <1>1, FS_Surjection
<1> QED
  BY <1>2, FS_CardinalityType

(* Clients are in the store, at most one per callee, or are held by a      *)
(* thread that lost; and not all the threads have lost when every callee   *)
(* has its client.                                                         *)
LEMMA InvBound == Inv => ConnectionsBounded
<1> SUFFICES ASSUME Inv PROVE ConnectionsBounded
  OBVIOUS
<1> DEFINE A == Stored \ {Self}
           H == {t \in Thread : HoldsOwn(t)}
           kept == [a \in A |-> rpc_objects_[a]]
           own == [t \in H |-> thread[t].client]
           K == {kept[a] : a \in A}
           O == {own[t] : t \in H}
<1>0. TypeOK
  BY DEF Inv
<1>1. /\ IsFiniteSet(Addr) /\ IsFiniteSet(Thread) /\ A \subseteq Addr /\ H \subseteq Thread
      /\ Cardinality(Addr) \in Nat /\ Cardinality(Thread) \in Nat
  BY <1>0, StoreAssumption, FS_CardinalityType DEF TypeOK
<1>2. /\ IsFiniteSet(A) /\ Cardinality(A) \in Nat /\ Cardinality(A) <= Cardinality(Addr)
      /\ Cardinality(A) = Cardinality(Addr) => A = Addr
  BY <1>1, FS_Subset, FS_CardinalityType
<1>3. /\ IsFiniteSet(H) /\ Cardinality(H) \in Nat /\ Cardinality(H) <= Cardinality(Thread)
      /\ Cardinality(H) = Cardinality(Thread) => H = Thread
  BY <1>1, FS_Subset, FS_CardinalityType
<1>4. 1 .. created \subseteq K \cup O
  <2> SUFFICES ASSUME NEW k \in 1 .. created PROVE k \in K \cup O
    OBVIOUS
  <2>1. CASE InStore(k)
    <3>1. PICK a \in Stored : rpc_objects_[a] = k
      BY <2>1 DEF InStore
    <3>2. a # Self
      BY <3>1 DEF Inv, Server
    <3> QED
      BY <3>1, <3>2
  <2>2. CASE ~ InStore(k)
    BY <2>2 DEF Inv, CreatedIsHeld
  <2> QED
    BY <2>1, <2>2
<1>5. ~ (A = Addr /\ H = Thread)
  <2> SUFFICES ASSUME A = Addr, H = Thread PROVE FALSE
    OBVIOUS
  <2>1. PICK t \in Thread : ~ Doomed(t)
    BY DEF Inv
  <2>2. HoldsOwn(t) /\ ThreadInv(t)
    BY DEF Inv
  <2> QED
    BY <2>1, <2>2 DEF Doomed, HoldsOwn, HasClient, ThreadInv
<1>6. /\ IsFiniteSet(K) /\ Cardinality(K) \in Nat /\ Cardinality(K) <= Cardinality(A)
  <2> HIDE DEF A
  <2>1. DOMAIN kept = A
    OBVIOUS
  <2> HIDE DEF kept
  <2> QED
    BY <1>2, <2>1, ImageBound
<1>7. /\ IsFiniteSet(O) /\ Cardinality(O) \in Nat /\ Cardinality(O) <= Cardinality(H)
  <2> HIDE DEF H
  <2>1. DOMAIN own = H
    OBVIOUS
  <2> HIDE DEF own
  <2> QED
    BY <1>3, <2>1, ImageBound
<1> HIDE DEF A, H, K, O
<1>8. created <= Cardinality(K) + Cardinality(O)
  <2>1. /\ IsFiniteSet(K \cup O)
        /\ Cardinality(K \cup O) = Cardinality(K) + Cardinality(O) - Cardinality(K \cap O)
        /\ Cardinality(K \cap O) \in Nat
    BY <1>6, <1>7, FS_Union, FS_Intersection, FS_CardinalityType
  <2>2. IsFiniteSet(1 .. created) /\ Cardinality(1 .. created) = created /\ created \in Nat
    BY <1>0, FS_Interval DEF TypeOK
  <2>3. Cardinality(1 .. created) <= Cardinality(K \cup O)
    BY <1>4, <2>1, FS_Subset
  <2> QED
    BY <1>6, <1>7, <2>1, <2>2, <2>3
<1>9. created \in Nat
  BY <1>0 DEF TypeOK
<1>10. \/ Cardinality(A) <= Cardinality(Addr) - 1
       \/ Cardinality(H) <= Cardinality(Thread) - 1
  BY <1>1, <1>2, <1>3, <1>5
<1>11. Cardinality(A) + Cardinality(H) <= Cardinality(Addr) + Cardinality(Thread) - 1
  BY <1>1, <1>2, <1>3, <1>10
<1> QED
  BY <1>1, <1>2, <1>3, <1>6, <1>7, <1>8, <1>9, <1>11 DEF ConnectionsBounded

(* Beyond one connection per callee there is at most one for each thread   *)
(* but one, whatever is missed or lost (RPCClientStore.hpp).               *)
THEOREM ConnectionsDoNotPileUp == Spec => []ConnectionsBounded
  BY InvBound, Invariance, PTL

(* An entry of the store, once there, stays as it is (RPCStore.hpp:        *)
(* insert does not replace).                                               *)
THEOREM EntriesStay == Spec => StoreIsStable
<1> DEFINE Stable == \A a \in Stored : a \in DOMAIN rpc_objects_' /\ rpc_objects_'[a] = rpc_objects_[a]
<1>1. Next => Stable
  BY DEF Next, Step, GetRPCClient, HasRPCObject, GetRPCObject, NewClient, AddRPCObject, Insert,
         LetGo, DestroyClient, With, Stored
<1>2. [Next]_store_vars => [Stable]_store_vars
  BY <1>1
<1>3. StoreIsStable <=> [][Stable]_store_vars
  BY DEF StoreIsStable
<1> QED
  BY <1>2, <1>3, PTL DEF Spec

=============================================================================
