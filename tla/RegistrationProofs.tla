-------------------------- MODULE RegistrationProofs --------------------------
(***************************************************************************)
(* Theorems about Registration, for any number of slots, nodes, workers,   *)
(* requests and rounds.                                                    *)
(***************************************************************************)
EXTENDS Registration, ClusterProofs

-----------------------------------------------------------------------------
(* Types.  TypeOK says of the fields of a thread what they may be; here a  *)
(* thread is a record of those fields, and no more.                        *)
Host == {n.host : n \in Node \cup {NoNode}}
Port == {n.port : n \in Node \cup {NoNode}}

Lists == UNION {[S -> Entry] : S \in SUBSET Slot}

WorkerPC == {"idle", "find", "find_port", "search", "write", "list", "list_port", "reply"}

HealthPC == {"idle", "list_test", "list", "list_port", "round", "find", "find_port",
             "check", "scan", "scan_port", "clear", "terminated"}

ThreadState == [pc : WorkerPC \cup HealthPC, node : Entry, i : Slot, host : Host,
                left : SUBSET Half, list : Lists]

(* What a thread may be, by its step: which steps are whose, that halves   *)
(* are left only in an assignment, what a worker's node is, and what the   *)
(* listing of a thread has in it.                                          *)
WorkerOK(th) ==
  /\ th.pc \in WorkerPC
  /\ IF th.pc = "idle" THEN th.node = NoNode ELSE th.node \in Node \ {Self}
  /\ th.pc \in {"find", "find_port", "search", "write"} => DOMAIN th.list = {}

HealthOK(th) ==
  /\ th.pc \in HealthPC
  /\ th.pc = "idle" => DOMAIN th.list = {}
  /\ th.pc = "round" => th.i = 0
  /\ th.pc \in {"find", "find_port", "check", "scan", "scan_port", "clear"} => th.node # Self

Good(t, th) ==
  /\ th \in ThreadState
  /\ th.pc \in {"write", "clear"} <=> th.left # {}
  /\ th.pc \in {"list_test", "list", "list_port"} => \A k \in DOMAIN th.list : k < th.i
  /\ IF t = HealthThread THEN HealthOK(th) ELSE WorkerOK(th)

Threads ==
  /\ thread \in [Thread -> ThreadState]
  /\ \A t \in Thread : Good(t, thread[t])

Types ==
  /\ nodes_ \in [Slot -> Entry]
  /\ Threads
  /\ mixed \subseteq Slot
  /\ disturbed \in [Thread -> SUBSET Slot]
  /\ twice \subseteq Node
  /\ requests \in 0 .. MaxRequests
  /\ rounds \in 0 .. MaxRounds

(* Slot 0: nobody is about to write to it, and the health thread gets past *)
(* the host of slot 0 only for a node of the same host.                    *)
OwnSlot ==
  /\ OwnSlotWhole
  /\ LET th == thread[HealthThread] IN
       th.pc = "scan_port" /\ th.i = 0 => th.node.host = Self.host

(* An assignment that nobody overlaps leaves what it has written.          *)
HalfWritten(t) ==
  LET i == thread[t].i IN
    thread[t].left \in {{"host"}, {"port"}} /\ i \notin mixed =>
      \A h \in Half \ thread[t].left : nodes_[i][h] = Assigned(t)[h]

Whole ==
  /\ \A t, u \in Thread : \A i \in Slot : t # u /\ MidWrite(t, i) /\ MidWrite(u, i) => i \in mixed
  /\ \A t \in Thread : HalfWritten(t)

(* What an undisturbed worker knows: the slots that it has listed are what *)
(* they were ...                                                           *)
Listed(nodes, d, list, j) ==
  j \notin d =>
    IF nodes[j].host = NoNode.host THEN j \notin DOMAIN list
                                   ELSE j \in DOMAIN list /\ list[j] = nodes[j]

ListingOK(nodes, d, th) ==
  /\ th.pc \in {"list", "list_port"} => \A j \in Slot : j < th.i => Listed(nodes, d, th.list, j)
  /\ th.pc = "list_port" => /\ th.host # NoNode.host
                            /\ th.i \notin d => nodes[th.i].host = th.host
  /\ th.pc = "reply" => \A j \in Slot : Listed(nodes, d, th.list, j)

(* ... and, from its scan or its own assignment, that the node is in the   *)
(* table or that the table is full.                                        *)
Full(nodes) == \A j \in Slot : nodes[j].host # NoNode.host

RegisterOK(nodes, th) ==
  /\ th.pc = "find_port" => nodes[th.i].host = th.node.host
  /\ th.pc = "search" => \A j \in Slot : j < th.i => nodes[j].host # NoNode.host
  /\ th.pc = "write" => \A h \in Half \ th.left : nodes[th.i][h] = th.node[h]
  /\ th.pc \in {"list", "list_port", "reply"} => NodeInCluster(nodes, th.node) \/ Full(nodes)

WorkerView(nodes, d, th) == ListingOK(nodes, d, th) /\ (d = {} => RegisterOK(nodes, th))

(* What an undisturbed health thread knows: the rest of its copy is in the *)
(* table, and so is the member that it handles, in a slot that the scan    *)
(* has not passed.                                                         *)
HealthView(nodes, th) ==
  /\ th.pc # "terminated"
  /\ \A k \in DOMAIN th.list : nodes[k] = th.list[k]
  /\ th.pc = "list_port" => th.host = nodes[th.i].host
  /\ th.pc \in {"find", "find_port", "check", "scan", "scan_port"} =>
       \E k \in Slot : /\ nodes[k] = th.node
                       /\ \A j \in DOMAIN th.list : k < j
                       /\ th.pc # "check" => th.i <= k
  /\ th.pc = "clear" => \A j \in DOMAIN th.list : th.i < j

Views ==
  /\ \A w \in Worker : WorkerView(nodes_, disturbed[w], thread[w])
  /\ disturbed[HealthThread] = {} => HealthView(nodes_, thread[HealthThread])

(* A worker that is about to add a node which no other worker serves has   *)
(* seen that the slots up to its own do not hold it, and they still do not,*)
(* unless an entry is a mixture or half written.                           *)
InDoubt(i) == i \in mixed \/ \E t \in Thread : MidWrite(t, i)

Absent(w) ==
  LET th == thread[w] IN
    th.pc \in {"find", "find_port", "search", "write"} /\ th.node \notin twice =>
      \A j \in Slot :
        (th.pc \in {"find", "find_port"} => j < th.i) /\ nodes_[j] = th.node => InDoubt(j)

Once ==
  /\ \A u, w \in Worker : u # w /\ thread[u].node = thread[w].node /\ thread[u].node \in Node
       => thread[u].node \in twice
  /\ \A w \in Worker : Absent(w)
  /\ NoMemberTwice

-----------------------------------------------------------------------------
LEMMA NodeIsEntry == Node \cup {NoNode} \subseteq Entry
  BY HostAndPortAssumption DEF Entry

LEMMA EntriesEqual ==
  ASSUME NEW e \in Entry, NEW f \in Entry, e.host = f.host, e.port = f.port
  PROVE  e = f
  BY DEF Entry

LEMMA ZeroSlot == 0 \in Slot /\ Slot \subseteq Nat
  BY MaxNumNodesAssumption DEF Slot

LEMMA NoListType == NoList \in Lists /\ DOMAIN NoList = {}
<1>1. NoList \in [{} -> Entry]
  BY DEF NoList
<1> QED
  BY <1>1 DEF Lists, NoList

LEMMA IdleType ==
  /\ Idle \in ThreadState
  /\ Idle.left = {} /\ Idle.node = NoNode /\ Idle.list = NoList /\ Idle.i = 0
<1>1. NoNode \in Entry /\ NoNode.host \in Host
  BY NodeIsEntry DEF Host
<1> QED
  BY <1>1, NoListType, ZeroSlot DEF Idle, ThreadState, WorkerPC, HealthPC

LEMMA ListsDomain ==
  ASSUME NEW l \in Lists
  PROVE  DOMAIN l \subseteq Slot /\ \A k \in DOMAIN l : l[k] \in Entry
  BY DEF Lists

LEMMA ListsWith ==
  ASSUME NEW l \in Lists, NEW k \in Slot, NEW e \in Entry
  PROVE  [i \in DOMAIN l \cup {k} |-> IF i = k THEN e ELSE l[i]] \in Lists
<1>1. DOMAIN l \cup {k} \in SUBSET Slot
  BY ListsDomain
<1>2. [i \in DOMAIN l \cup {k} |-> IF i = k THEN e ELSE l[i]] \in [DOMAIN l \cup {k} -> Entry]
  BY ListsDomain
<1> QED
  BY <1>1, <1>2 DEF Lists

LEMMA ListsWithout ==
  ASSUME NEW l \in Lists, NEW k
  PROVE  [i \in DOMAIN l \ {k} |-> l[i]] \in Lists
<1>1. DOMAIN l \ {k} \in SUBSET Slot
  BY ListsDomain
<1>2. [i \in DOMAIN l \ {k} |-> l[i]] \in [DOMAIN l \ {k} -> Entry]
  BY ListsDomain
<1> QED
  BY <1>1, <1>2 DEF Lists

(* An assignment of one half of a slot.                                    *)
LEMMA HalfAssigned ==
  ASSUME NEW e \in Entry, NEW f \in Entry, NEW h \in Half
  PROVE  /\ [e EXCEPT ![h] = f[h]] \in Entry
         /\ \A g \in Half : [e EXCEPT ![h] = f[h]][g] = IF g = h THEN f[g] ELSE e[g]
<1>1. CASE h = "host"
  BY <1>1 DEF Entry, Half
<1>2. CASE h = "port"
  BY <1>2 DEF Entry, Half
<1> QED
  BY <1>1, <1>2 DEF Half

-----------------------------------------------------------------------------
(* Threads.  A step is one thread's: the others stay what they are.        *)
LEMMA GotoThread ==
  ASSUME Threads, NEW t \in Thread, NEW th, Goto(t, th), Good(t, th)
  PROVE  /\ Threads'
         /\ thread'[t] = th
         /\ \A u \in Thread \ {t} : thread'[u] = thread[u]
  BY DEF Threads, Goto, Good

LEMMA FindGood ==
  ASSUME NEW t \in Thread, NEW th, Good(t, th), th = thread[t], th.pc \in {"find", "find_port"}
  PROVE  /\ Good(t, [th EXCEPT !.pc = "find_port"])
         /\ Good(t, FindNext(t))
         /\ Good(t, Found(t))
<1>1. Good(t, [th EXCEPT !.pc = "find_port"])
  BY DEF Good, ThreadState, WorkerOK, HealthOK, WorkerPC, HealthPC
<1>2. Good(t, Found(t))
  <2>1. CASE t = HealthThread
    BY <2>1, ZeroSlot DEF Good, ThreadState, HealthOK, HealthPC, Found, Slot0
  <2>2. CASE t # HealthThread
    BY <2>2, ZeroSlot DEF Good, ThreadState, WorkerOK, WorkerPC, Found, Slot0
  <2> QED
    BY <2>1, <2>2
<1>3. Good(t, NotFound(t))
  <2>1. CASE t = HealthThread
    BY <2>1, ZeroSlot DEF Good, ThreadState, HealthOK, HealthPC, NotFound, Slot0
  <2>2. CASE t # HealthThread
    BY <2>2, ZeroSlot DEF Good, ThreadState, WorkerOK, WorkerPC, NotFound, Slot0
  <2> QED
    BY <2>1, <2>2
<1>4. th.i + 1 \in Slot => Good(t, [th EXCEPT !.pc = "find", !.i = @ + 1])
  BY DEF Good, ThreadState, WorkerOK, HealthOK, WorkerPC, HealthPC
<1> QED
  BY <1>1, <1>2, <1>3, <1>4 DEF FindNext

LEMMA SearchGood ==
  ASSUME NEW w \in Worker, NEW th, Good(w, th), th.pc = "search"
  PROVE  /\ Good(w, [th EXCEPT !.pc = "write", !.left = Half])
         /\ th.i + 1 \in Slot => Good(w, [th EXCEPT !.i = @ + 1])
         /\ Good(w, Slot0(th, "list"))
<1> USE ThreadAssumption, ZeroSlot DEF Good, ThreadState, WorkerOK, WorkerPC, Slot0, Half
<1>1. w # HealthThread
  OBVIOUS
<1>2. Good(w, [th EXCEPT !.pc = "write", !.left = Half])
  BY <1>1
<1>3. th.i + 1 \in Slot => Good(w, [th EXCEPT !.i = @ + 1])
  BY <1>1
<1>4. Good(w, Slot0(th, "list"))
  BY <1>1
<1> QED
  BY <1>2, <1>3, <1>4

LEMMA RoundGood ==
  ASSUME NEW th, Good(HealthThread, th)
  PROVE  Good(HealthThread, Round(th))
  BY IdleType DEF Good, ThreadState, HealthOK, HealthPC, Round

LEMMA ScanGood ==
  ASSUME NEW th, Good(HealthThread, th), th.pc \in {"scan", "scan_port"}
  PROVE  /\ Good(HealthThread, ScanNext(th))
         /\ Good(HealthThread, [th EXCEPT !.pc = "scan_port"])
         /\ Good(HealthThread, [th EXCEPT !.pc = "clear", !.left = Half])
<1>1. Good(HealthThread, [th EXCEPT !.pc = "scan_port"])
  BY DEF Good, ThreadState, HealthOK, HealthPC
<1>2. Good(HealthThread, [th EXCEPT !.pc = "clear", !.left = Half])
  BY DEF Good, ThreadState, HealthOK, HealthPC, Half
<1>3. th.i + 1 \in Slot => Good(HealthThread, [th EXCEPT !.pc = "scan", !.i = @ + 1])
  BY DEF Good, ThreadState, HealthOK, HealthPC
<1> QED
  BY <1>1, <1>2, <1>3, RoundGood DEF ScanNext

LEMMA WriteGood ==
  ASSUME NEW t \in Thread, NEW th, Good(t, th), th = thread[t], th.pc \in {"write", "clear"},
         NEW h \in th.left
  PROVE  /\ Good(t, Written(t))
         /\ th.left # {h} => Good(t, [th EXCEPT !.left = @ \ {h}])
<1>1. th.left # {h} => Good(t, [th EXCEPT !.left = @ \ {h}])
  BY DEF Good, ThreadState, WorkerOK, HealthOK
<1>2. t # HealthThread => Good(t, [Slot0(th, "list") EXCEPT !.left = {}])
  BY ZeroSlot DEF Good, ThreadState, WorkerOK, WorkerPC, Slot0
<1> QED
  BY <1>1, <1>2, RoundGood DEF Written

LEMMA ListGood ==
  ASSUME NEW t \in Thread, NEW th, Good(t, th),
         NEW l \in Lists, \A k \in DOMAIN l : k < th.i + 1,
         th.pc \in {"list_test", "list", "list_port"}
  PROVE  Good(t, ListNext(t, [th EXCEPT !.host = NoNode.host, !.list = l]))
<1> DEFINE ph == [th EXCEPT !.host = NoNode.host, !.list = l]
<1>0. NoNode.host \in Host
  BY DEF Host
<1>1. CASE t = HealthThread
  <2>1. th.i + 1 \in Slot => Good(t, [ph EXCEPT !.pc = "list_test", !.i = @ + 1])
    BY <1>0, <1>1 DEF Good, ThreadState, HealthOK, HealthPC
  <2>2. Good(t, Round(ph))
    BY <1>1, IdleType DEF Good, ThreadState, HealthOK, HealthPC, Round
  <2>3. ph.i = th.i
    BY DEF Good, ThreadState
  <2> QED
    BY <1>1, <2>1, <2>2, <2>3 DEF ListNext
<1>2. CASE t # HealthThread
  <2>1. th.i + 1 \in Slot => Good(t, [ph EXCEPT !.pc = "list", !.i = @ + 1])
    BY <1>0, <1>2 DEF Good, ThreadState, WorkerOK, WorkerPC
  <2>2. Good(t, Slot0(ph, "reply"))
    BY <1>0, <1>2, ZeroSlot DEF Good, ThreadState, WorkerOK, WorkerPC, Slot0
  <2>3. ph.i = th.i
    BY DEF Good, ThreadState
  <2> QED
    BY <1>2, <2>1, <2>2, <2>3 DEF ListNext
<1> QED
  BY <1>1, <1>2

-----------------------------------------------------------------------------
(* A step is an assignment to half a slot, or it is local to a thread that *)
(* is not in the middle of one.                                            *)
Moves(t) ==
  \/ FindHost(t) \/ FindPort(t) \/ ListHost(t) \/ ListPort(t)
  \/ t \in Worker /\ WorkerStep(t)
  \/ t = HealthThread /\ HealthStep

Local(t) ==
  /\ nodes_' = nodes_ /\ mixed' = mixed
  /\ \A u \in Thread \ {t} : thread'[u] = thread[u] /\ disturbed'[u] = disturbed[u]
  /\ thread[t].left = {} /\ thread'[t].left \in {{}, Half}

LEMMA StepIs ==
  ASSUME [Next]_vars
  PROVE  \/ UNCHANGED vars
         \/ \E t \in Thread : Moves(t) \/ \E h \in Half : WriteHalf(t, h)
<1> HealthThread \in Thread /\ Worker \subseteq Thread
  BY DEF Thread
<1> QED
  BY DEF Next, ThreadStep, Moves

(* The threads and the table stay in their types.                          *)
LEMMA GoodThread ==
  ASSUME Types, NEW t \in Thread
  PROVE  Good(t, thread[t]) /\ thread[t] \in ThreadState /\ thread[t].i \in Slot
  BY DEF Types, Threads, ThreadState

LEMMA LocalGoto ==
  ASSUME Types, NEW t \in Thread, NEW th, Goto(t, th), Good(t, th), th.left \in {{}, Half},
         UNCHANGED <<nodes_, mixed>>, thread[t].pc \notin {"write", "clear"},
         \A u \in Thread \ {t} : disturbed'[u] = disturbed[u]
  PROVE  Threads' /\ Local(t) /\ thread'[t] = th
<1>1. /\ Threads' /\ thread'[t] = th
      /\ \A u \in Thread \ {t} : thread'[u] = thread[u]
  BY GotoThread DEF Types
<1>2. thread[t].left = {}
  BY GoodThread DEF Good
<1> QED
  BY <1>1, <1>2 DEF Local

LEMMA CalmUnlessWriting ==
  ASSUME NEW t, NEW th, Good(t, th), th.pc \notin {"write", "clear"}
  PROVE  th.left = {}
  BY DEF Good

LEMMA DisturbedType ==
  ASSUME Types, NEW t \in Thread
  PROVE  /\ Undisturbed(t) => /\ disturbed' \in [Thread -> SUBSET Slot]
                              /\ \A u \in Thread \ {t} : disturbed'[u] = disturbed[u]
         /\ disturbed' = [disturbed EXCEPT ![t] = {}] =>
              /\ disturbed' \in [Thread -> SUBSET Slot]
              /\ \A u \in Thread \ {t} : disturbed'[u] = disturbed[u]
  BY DEF Types, Undisturbed

LEMMA LocalFind ==
  ASSUME Types, NEW t \in Thread, FindHost(t) \/ FindPort(t)
  PROVE  Threads' /\ Local(t)
<1> DEFINE th == thread[t]
<1>1. /\ Good(t, th) /\ th \in ThreadState /\ th.left = {}
      /\ th.pc \in {"find", "find_port"}
  BY GoodThread, CalmUnlessWriting DEF FindHost, FindPort, At
<1>2. /\ Good(t, [th EXCEPT !.pc = "find_port"]) /\ Good(t, FindNext(t)) /\ Good(t, Found(t))
  BY <1>1, FindGood
<1>3. /\ [th EXCEPT !.pc = "find_port"].left = {} /\ FindNext(t).left = {} /\ Found(t).left = {}
  BY <1>1, <1>2, CalmUnlessWriting DEF ThreadState, FindNext, NotFound, Found, Slot0
<1>4. /\ UNCHANGED <<nodes_, mixed, disturbed>>
      /\ \E x \in {[th EXCEPT !.pc = "find_port"], FindNext(t), Found(t)} : Goto(t, x)
  BY DEF FindHost, FindPort, history
<1> QED
  BY <1>1, <1>2, <1>3, <1>4, LocalGoto

LEMMA LocalSearch ==
  ASSUME Types, NEW w \in Worker, Search(w)
  PROVE  Threads' /\ Local(w)
<1> DEFINE th == thread[w]
<1>0. w \in Thread
  BY DEF Thread
<1>1. /\ Good(w, th) /\ th \in ThreadState /\ th.left = {} /\ th.pc = "search"
  BY <1>0, GoodThread, CalmUnlessWriting DEF Search, At
<1>2. /\ Good(w, [th EXCEPT !.pc = "write", !.left = Half])
      /\ th.i + 1 \in Slot => Good(w, [th EXCEPT !.i = @ + 1])
      /\ Good(w, Slot0(th, "list"))
  BY <1>1, SearchGood
<1>3. /\ [th EXCEPT !.pc = "write", !.left = Half].left = Half
      /\ [th EXCEPT !.i = @ + 1].left = {}
      /\ Slot0(th, "list").left = {}
  BY <1>1 DEF ThreadState, Slot0
<1>4. /\ UNCHANGED <<nodes_, mixed, disturbed>>
      /\ \/ Goto(w, [th EXCEPT !.pc = "write", !.left = Half])
         \/ th.i + 1 \in Slot /\ Goto(w, [th EXCEPT !.i = @ + 1])
         \/ Goto(w, Slot0(th, "list"))
  BY DEF Search, history
<1> QED
  BY <1>0, <1>1, <1>2, <1>3, <1>4, LocalGoto

LEMMA LocalScan ==
  ASSUME Types, ScanHost \/ ScanPort
  PROVE  Threads' /\ Local(HealthThread)
<1> DEFINE H == HealthThread
           th == thread[H]
<1>0. H \in Thread
  BY DEF Thread
<1>1. /\ Good(H, th) /\ th \in ThreadState /\ th.left = {} /\ th.pc \in {"scan", "scan_port"}
  BY <1>0, GoodThread, CalmUnlessWriting DEF ScanHost, ScanPort, At
<1>2. /\ Good(H, ScanNext(th))
      /\ Good(H, [th EXCEPT !.pc = "scan_port"])
      /\ Good(H, [th EXCEPT !.pc = "clear", !.left = Half])
  BY <1>1, ScanGood
<1>3. /\ ScanNext(th).left = {}
      /\ [th EXCEPT !.pc = "scan_port"].left = {}
      /\ [th EXCEPT !.pc = "clear", !.left = Half].left = Half
  BY <1>1, IdleType DEF ThreadState, ScanNext, Round
<1>4. /\ UNCHANGED <<nodes_, mixed, disturbed>>
      /\ \/ Goto(H, ScanNext(th))
         \/ Goto(H, [th EXCEPT !.pc = "scan_port"])
         \/ Goto(H, [th EXCEPT !.pc = "clear", !.left = Half])
  BY DEF ScanHost, ScanPort, history
<1> QED
  BY <1>0, <1>1, <1>2, <1>3, <1>4, LocalGoto

(* Where the next slot of a listing takes a thread.                        *)
LEMMA ListNextCalm ==
  ASSUME NEW t, NEW th \in ThreadState, th.left = {}
  PROVE  ListNext(t, th).left = {}
  BY IdleType DEF ThreadState, ListNext, Round, Slot0

LEMMA LocalList ==
  ASSUME Types, NEW t \in Thread,
         ListHost(t) \/ ListPort(t) \/ (t = HealthThread /\ ListTest)
  PROVE  Threads' /\ Local(t)
<1> DEFINE th == thread[t]
<1>1. /\ Good(t, th) /\ th \in ThreadState /\ th.left = {}
      /\ th.pc \in {"list_test", "list", "list_port"}
  BY GoodThread, CalmUnlessWriting DEF ListHost, ListPort, ListTest, At
<1>2. /\ UNCHANGED <<nodes_, mixed, disturbed>> /\ th.pc \notin {"write", "clear"}
  BY <1>1 DEF ListHost, ListPort, ListTest, history
<1>3. nodes_[th.i].host \in Host /\ nodes_[th.i].port \in Port
  BY <1>1 DEF Types, ThreadState, Entry, Host, Port
<1>4. CASE Goto(t, ListNext(t, th)) /\ th.pc # "list_port"
  <2>1. \A k \in DOMAIN th.list : k < th.i /\ k < th.i + 1
    BY <1>1, <1>4, ListsDomain, ZeroSlot DEF Good, ThreadState
  <2>2. Good(t, ListNext(t, th))
    <3>1. CASE t = HealthThread
      <4>1. th.i + 1 \in Slot => Good(t, [th EXCEPT !.pc = "list_test", !.i = @ + 1])
        BY <1>1, <2>1, <3>1 DEF Good, ThreadState, HealthOK, HealthPC
      <4> QED
        BY <1>1, <3>1, <4>1, RoundGood DEF ListNext
    <3>2. CASE t # HealthThread
      <4>1. th.i + 1 \in Slot => Good(t, [th EXCEPT !.pc = "list", !.i = @ + 1])
        BY <1>1, <2>1, <3>2 DEF Good, ThreadState, WorkerOK, WorkerPC
      <4>2. Good(t, Slot0(th, "reply"))
        BY <1>1, <3>2, ZeroSlot DEF Good, ThreadState, WorkerOK, WorkerPC, Slot0
      <4> QED
        BY <3>2, <4>1, <4>2 DEF ListNext
    <3> QED
      BY <3>1, <3>2
  <2> QED
    BY <1>1, <1>2, <1>4, <2>2, ListNextCalm, LocalGoto
<1>5. CASE /\ Goto(t, [th EXCEPT !.pc = "list_port", !.host = nodes_[th.i].host])
           /\ th.pc = "list"
  <2> DEFINE x == [th EXCEPT !.pc = "list_port", !.host = nodes_[th.i].host]
  <2>1. Good(t, x) /\ x.left = {}
    BY <1>1, <1>3, <1>5 DEF Good, ThreadState, WorkerOK, HealthOK, WorkerPC, HealthPC
  <2> QED
    BY <1>2, <1>5, <2>1, LocalGoto
<1>6. CASE /\ Goto(t, [th EXCEPT !.pc = "list"])
           /\ t = HealthThread /\ th.pc = "list_test"
  <2> DEFINE x == [th EXCEPT !.pc = "list"]
  <2>1. Good(t, x) /\ x.left = {}
    BY <1>1, <1>6 DEF Good, ThreadState, HealthOK, HealthPC
  <2> QED
    BY <1>2, <1>6, <2>1, LocalGoto
<1>7. CASE ListPort(t)
  <2> DEFINE entry == [host |-> th.host, port |-> nodes_[th.i].port]
             l == [i \in DOMAIN th.list \cup {th.i} |-> IF i = th.i THEN entry ELSE th.list[i]]
             x == [th EXCEPT !.host = NoNode.host, !.list = l]
  <2>1. entry \in Entry
    BY <1>1, <1>3 DEF Entry, Host, Port, ThreadState
  <2>2. l \in Lists
    <3> HIDE DEF entry
    <3> QED
      BY <1>1, <2>1, ListsWith DEF ThreadState
  <2>3. \A k \in DOMAIN l : k < th.i + 1
    <3>1. th.i \in Nat /\ DOMAIN th.list \subseteq Nat /\ \A k \in DOMAIN th.list : k < th.i
      BY <1>1, ZeroSlot, ListsDomain DEF Good, ThreadState
    <3>2. DOMAIN l = DOMAIN th.list \cup {th.i}
      OBVIOUS
    <3> HIDE DEF l
    <3> QED
      BY <3>1, <3>2
  <2>4. Goto(t, ListNext(t, x))
    BY <1>7 DEF ListPort
  <2> HIDE DEF l
  <2>5. Good(t, ListNext(t, x))
    BY <1>1, <2>2, <2>3, ListGood
  <2>6. ListNext(t, x).left = {}
    <3>1. x \in ThreadState /\ x.left = {}
      BY <1>1, <2>2 DEF ThreadState, Host
    <3> QED
      BY <3>1, ListNextCalm
  <2> QED
    BY <1>2, <2>4, <2>5, <2>6, LocalGoto
<1> QED
  BY <1>1, <1>4, <1>5, <1>6, <1>7 DEF ListHost, ListTest, At

LEMMA LocalRest ==
  ASSUME Types, NEW t \in Thread,
         \/ t \in Worker /\ (Reply(t) \/ \E n \in Node \ {Self} : Request(t, n))
         \/ /\ t = HealthThread
            /\ BeginRound \/ CheckNext \/ MemberStays \/ RemoveNode \/ EndRound
  PROVE  Threads' /\ Local(t)
<1> DEFINE th == thread[t]
<1>1. Good(t, th) /\ th \in ThreadState
  BY GoodThread
<1>2. Good(t, Idle)
  BY IdleType, NoListType DEF Good, HealthOK, WorkerOK, HealthPC, WorkerPC, Idle
<1>3. CASE Ends(t) /\ th.pc \notin {"write", "clear"}
  <2>1. \A u \in Thread \ {t} : disturbed'[u] = disturbed[u]
    BY <1>3, DisturbedType DEF Ends
  <2> QED
    BY <1>2, <1>3, <2>1, IdleType, LocalGoto DEF Ends
<1>4. ASSUME NEW n \in Node \ {Self}, Request(t, n), t \in Worker PROVE Threads' /\ Local(t)
  <2> DEFINE x == [Idle EXCEPT !.pc = "find", !.node = n]
  <2>1. Good(t, x) /\ x.left = {}
    <3>1. n \in Entry /\ t # HealthThread
      BY <1>4, NodeIsEntry, ThreadAssumption
    <3> QED
      BY <3>1, IdleType, NoListType DEF Good, ThreadState, WorkerOK, WorkerPC, Idle
  <2>2. /\ Goto(t, x) /\ UNCHANGED <<nodes_, mixed>> /\ th.pc = "idle"
        /\ \A u \in Thread \ {t} : disturbed'[u] = disturbed[u]
    BY <1>4, DisturbedType DEF Request, At
  <2> QED
    BY <2>1, <2>2, LocalGoto
<1>5. CASE t = HealthThread /\ BeginRound
  <2> DEFINE x == [Idle EXCEPT !.pc = "list_test"]
  <2>1. Good(t, x) /\ x.left = {}
    BY <1>5, IdleType, NoListType DEF Good, ThreadState, HealthOK, HealthPC, Idle
  <2>2. /\ Goto(t, x) /\ UNCHANGED <<nodes_, mixed>> /\ th.pc = "idle"
        /\ \A u \in Thread \ {t} : disturbed'[u] = disturbed[u]
    BY <1>5, DisturbedType DEF BeginRound, At
  <2> QED
    BY <2>1, <2>2, LocalGoto
<1>6. CASE t = HealthThread /\ CheckNext
  <2> DEFINE k == First(DOMAIN th.list)
             rest == [i \in DOMAIN th.list \ {k} |-> th.list[i]]
  <2>1. th.pc = "round" /\ th.left = {} /\ UNCHANGED <<nodes_, mixed, disturbed>>
    BY <1>1, <1>6, CalmUnlessWriting DEF CheckNext, At, history
  <2>2. rest \in Lists
    BY <1>1, ListsWithout DEF ThreadState
  <2>3. th.list[k] \in Entry
    <3>1. DOMAIN th.list \in SUBSET Slot /\ DOMAIN th.list # {} /\ th.list \in Lists
      BY <1>1, <1>6, ListsDomain DEF ThreadState, CheckNext
    <3> QED
      BY <3>1, FirstIsLeast, ListsDomain
  <2>4. Goto(t, IF th.list[k] = Self THEN [th EXCEPT !.list = rest]
                ELSE [th EXCEPT !.list = rest, !.node = th.list[k], !.pc = "find"])
    BY <1>6 DEF CheckNext, NextMember
  <2> HIDE DEF rest, k
  <2>5. Good(t, [th EXCEPT !.list = rest]) /\ [th EXCEPT !.list = rest].left = {}
    BY <1>1, <1>6, <2>1, <2>2 DEF Good, ThreadState, HealthOK
  <2>6. CASE th.list[k] = Self
    BY <2>1, <2>4, <2>5, <2>6, LocalGoto
  <2>7. CASE th.list[k] # Self
    <3> DEFINE x == [th EXCEPT !.list = rest, !.node = th.list[k], !.pc = "find"]
    <3>1. Good(t, x) /\ x.left = {}
      BY <1>1, <1>6, <2>1, <2>2, <2>3, <2>7 DEF Good, ThreadState, HealthOK, HealthPC
    <3> QED
      BY <2>1, <2>4, <2>7, <3>1, LocalGoto
  <2> QED
    BY <2>6, <2>7
<1>7. CASE t = HealthThread /\ (MemberStays \/ RemoveNode)
  <2>1. th.pc = "check" /\ th.left = {} /\ UNCHANGED <<nodes_, mixed, disturbed>>
    BY <1>1, <1>7, CalmUnlessWriting DEF MemberStays, RemoveNode, CheckEnds, At, history
  <2>2. Good(t, Round(th)) /\ Round(th).left = {}
    BY <1>1, <1>7, RoundGood, IdleType DEF Round, ThreadState
  <2>3. Good(t, Slot0(th, "scan")) /\ Slot0(th, "scan").left = {}
    BY <1>1, <1>7, <2>1, ZeroSlot DEF Good, ThreadState, HealthOK, HealthPC, Slot0
  <2> QED
    BY <1>7, <2>1, <2>2, <2>3, LocalGoto DEF MemberStays, RemoveNode, CheckEnds
<1> QED
  BY <1>3, <1>4, <1>5, <1>6, <1>7 DEF Reply, EndRound, At

LEMMA LocalStep ==
  ASSUME Types, NEW t \in Thread, Moves(t)
  PROVE  Types' /\ Local(t)
<1>1. Threads' /\ Local(t)
  BY LocalFind, LocalSearch, LocalScan, LocalList, LocalRest DEF Moves, WorkerStep, HealthStep
<1>2. disturbed' \in [Thread -> SUBSET Slot]
  BY DisturbedType DEF Types, Moves, WorkerStep, HealthStep, FindHost, FindPort, ListHost, ListPort,
       Request, Search, Reply, Ends, BeginRound, ListTest, CheckNext, MemberStays, RemoveNode,
       CheckEnds, ScanHost, ScanPort, EndRound, history
<1>3. twice' \subseteq Node /\ requests' \in 0 .. MaxRequests /\ rounds' \in 0 .. MaxRounds
  <2>1. ASSUME NEW n \in Node, Request(t, n)
        PROVE  twice' \subseteq Node /\ requests' \in 0 .. MaxRequests /\ rounds' = rounds
    BY <2>1, BoundAssumption DEF Types, Request
  <2>2. CASE BeginRound
    BY <2>2, BoundAssumption DEF Types, BeginRound
  <2>3. UNCHANGED <<twice, requests, rounds>> \/ BeginRound \/ \E n \in Node : Request(t, n)
    BY DEF Moves, WorkerStep, HealthStep, FindHost, FindPort, ListHost, ListPort,
           Search, Reply, Ends, ListTest, CheckNext, MemberStays, RemoveNode,
           CheckEnds, ScanHost, ScanPort, EndRound, history
  <2> QED
    BY <2>1, <2>2, <2>3 DEF Types
<1> QED
  BY <1>1, <1>2, <1>3 DEF Types, Local

(* An assignment changes half of one slot, and nothing of other threads.   *)
Assigns(t, h) ==
  LET th == thread[t] IN
  /\ th.pc \in {"write", "clear"} /\ h \in th.left
  /\ \A j \in Slot \ {th.i} : nodes_'[j] = nodes_[j]
  /\ \A g \in Half : nodes_'[th.i][g] = IF g = h THEN Assigned(t)[g] ELSE nodes_[th.i][g]
  /\ thread'[t] = IF th.left = {h} THEN Written(t) ELSE [th EXCEPT !.left = @ \ {h}]
  /\ thread'[t].left = th.left \ {h}
  /\ disturbed'[t] = disturbed[t]
  /\ \A u \in Thread \ {t} :
       /\ thread'[u] = thread[u]
       /\ disturbed'[u] = IF thread[u].pc = "idle" THEN disturbed[u] ELSE disturbed[u] \cup {th.i}
  /\ NoteWrite(t, th.i)
  /\ twice' = twice

LEMMA AssignedType ==
  ASSUME Types, NEW t \in Thread
  PROVE  Assigned(t) \in Entry
  BY NodeIsEntry, GoodThread DEF Assigned, ThreadState

LEMMA WriteStep ==
  ASSUME Types, NEW t \in Thread, NEW h \in Half, WriteHalf(t, h)
  PROVE  Types' /\ Assigns(t, h)
<1> DEFINE th == thread[t]
           i == th.i
           e == [nodes_[i] EXCEPT ![h] = Assigned(t)[h]]
<1>1. /\ Good(t, th) /\ th \in ThreadState /\ i \in Slot
      /\ th.pc \in {"write", "clear"} /\ h \in th.left
  BY GoodThread DEF WriteHalf, Writing
<1>2. nodes_ \in [Slot -> Entry] /\ nodes_' = [nodes_ EXCEPT ![i] = e]
  BY <1>1 DEF Types, WriteHalf
<1>3. /\ e \in Entry
      /\ \A g \in Half : e[g] = IF g = h THEN Assigned(t)[g] ELSE nodes_[i][g]
  <2>1. nodes_[i] \in Entry /\ Assigned(t) \in Entry
    BY <1>1, <1>2, AssignedType
  <2> HIDE DEF i
  <2>2. [nodes_[i] EXCEPT ![h] = Assigned(t)[h]] \in Entry
    BY <2>1, HalfAssigned, Zenon
  <2>3. \A g \in Half : [nodes_[i] EXCEPT ![h] = Assigned(t)[h]][g]
                          = IF g = h THEN Assigned(t)[g] ELSE nodes_[i][g]
    <3>1. DOMAIN nodes_[i] = Half
      BY <2>1 DEF Entry, Half
    <3> QED
      BY <3>1
  <2> QED
    BY <2>2, <2>3, Zenon
<1> HIDE DEF e
<1>4. /\ nodes_' \in [Slot -> Entry]
      /\ \A j \in Slot \ {i} : nodes_'[j] = nodes_[j]
      /\ nodes_'[i] = e
  BY <1>1, <1>2, <1>3
<1>5. Threads' /\ \A u \in Thread \ {t} : thread'[u] = thread[u]
  <2>1. CASE th.left = {h}
    BY <2>1, <1>1, WriteGood, GotoThread DEF WriteHalf, Types
  <2>2. CASE th.left # {h}
    BY <2>2, <1>1, WriteGood, GotoThread DEF WriteHalf, Types
  <2> QED
    BY <2>1, <2>2
<1>6. thread'[t] = (IF th.left = {h} THEN Written(t) ELSE [th EXCEPT !.left = @ \ {h}])
  <2>1. CASE th.left = {h}
    BY <2>1, <1>1, WriteGood, GotoThread DEF WriteHalf, Types
  <2>2. CASE th.left # {h}
    BY <2>2, <1>1, WriteGood, GotoThread DEF WriteHalf, Types
  <2> QED
    BY <2>1, <2>2
<1>7. thread'[t].left = th.left \ {h}
  <2>1. CASE th.left = {h}
    BY <2>1, <1>1, <1>6, IdleType DEF Written, Round, Slot0, ThreadState
  <2>2. CASE th.left # {h}
    BY <2>2, <1>1, <1>6 DEF ThreadState
  <2> QED
    BY <2>1, <2>2
<1>8. NoteWrite(t, i) /\ UNCHANGED <<requests, rounds, twice>>
  BY DEF WriteHalf
<1>9. /\ mixed' \subseteq Slot /\ disturbed' \in [Thread -> SUBSET Slot]
       /\ disturbed'[t] = disturbed[t]
       /\ \A u \in Thread \ {t} :
            disturbed'[u] = IF thread[u].pc = "idle" THEN disturbed[u] ELSE disturbed[u] \cup {i}
  BY <1>1, <1>8 DEF NoteWrite, Types
<1>10. Types'
  BY <1>4, <1>5, <1>8, <1>9 DEF Types
<1> QED
  BY <1>1, <1>3, <1>4, <1>5, <1>6, <1>7, <1>8, <1>9, <1>10 DEF Assigns

LEMMA TypesStep ==
  ASSUME Types, [Next]_vars
  PROVE  Types'
<1>1. CASE UNCHANGED vars
  BY <1>1 DEF vars, history, Types, Threads
<1> QED
  BY <1>1, StepIs, LocalStep, WriteStep

-----------------------------------------------------------------------------
LEMMA GotoIs ==
  ASSUME Types, NEW t \in Thread, NEW th, Goto(t, th)
  PROVE  thread'[t] = th
  BY DEF Types, Threads, Goto

LEMMA ListMoves ==
  ASSUME Types, NEW t \in Thread, ListHost(t) \/ ListPort(t) \/ (t = HealthThread /\ ListTest)
  PROVE  thread'[t].pc \in {"list", "list_port", "list_test", "reply", "round"}
<1> DEFINE th == thread[t]
<1>1. th \in ThreadState
  BY GoodThread
<1>2. ASSUME NEW ph, DOMAIN ph = DOMAIN th PROVE ListNext(t, ph).pc \in {"list", "list_test", "reply", "round"}
  BY <1>1, <1>2 DEF ListNext, Round, Idle, Slot0, ThreadState
<1>3. \/ \E ph : DOMAIN ph = DOMAIN th /\ thread'[t] = ListNext(t, ph)
      \/ \E host : thread'[t] = [th EXCEPT !.pc = "list_port", !.host = host]
      \/ thread'[t] = [th EXCEPT !.pc = "list"]
  BY <1>1, GotoIs DEF ListHost, ListPort, ListTest
<1> QED
  BY <1>1, <1>2, <1>3 DEF ThreadState

-----------------------------------------------------------------------------
(* Slot 0 is the node's own: a search for a free slot passes it, because   *)
(* its host is not empty, and a scan passes it, because what is evicted is *)
(* never the node itself.                                                  *)
LEMMA OwnSlotLocal ==
  ASSUME Types, OwnSlot, NEW t \in Thread, Moves(t)
  PROVE  OwnSlot'
<1> DEFINE th == thread[t]
<1>0. HealthThread \in Thread
  BY DEF Thread
<1>1. Local(t) /\ Threads'
  BY LocalStep DEF Types
<1>2. /\ nodes_' = nodes_ /\ nodes_[0] = Self /\ Self.host # NoNode.host
      /\ \A u \in Thread \ {t} : thread'[u] = thread[u] /\ (Writing(u) => thread[u].i # 0)
  BY <1>1, SelfAssumption, EmptyHostAssumption DEF Local, OwnSlot, OwnSlotWhole
<1>3. Good(t, th) /\ th \in ThreadState /\ Good(t, thread'[t])
  BY <1>1, GoodThread DEF Threads
<1>4. CASE thread'[t].pc \notin {"write", "clear", "scan_port"}
  BY <1>0, <1>2, <1>4 DEF OwnSlot, OwnSlotWhole, Writing
<1>5. CASE FindHost(t) \/ FindPort(t)
  <2>1. thread'[t] \in {[th EXCEPT !.pc = "find_port"], FindNext(t), Found(t)}
    BY <1>5, GotoIs DEF FindHost, FindPort
  <2>2. thread'[t].pc \in {"find_port", "find", "terminated", "search", "list", "check"}
    BY <1>3, <2>1 DEF FindNext, NotFound, Found, Slot0, ThreadState
  <2> QED
    BY <1>4, <2>2
<1>6. CASE t \in Worker /\ Search(t)
  <2>1. thread'[t] = IF nodes_[th.i].host = NoNode.host
                       THEN [th EXCEPT !.pc = "write", !.left = Half]
                     ELSE IF th.i + 1 \in Slot
                       THEN [th EXCEPT !.i = @ + 1]
                     ELSE Slot0(th, "list")
    BY <1>6, GotoIs DEF Search
  <2>2. th.pc = "search" /\ t # HealthThread
    BY <1>6, ThreadAssumption DEF Search, At
  <2>3. CASE nodes_[th.i].host = NoNode.host
    <3>1. thread'[t].pc = "write" /\ thread'[t].i = th.i
      BY <1>3, <2>1, <2>3 DEF ThreadState
    <3>2. th.i # 0
      BY <1>2, <2>3
    <3> QED
      BY <1>0, <1>2, <2>2, <3>1, <3>2 DEF OwnSlot, OwnSlotWhole, Writing
  <2>4. CASE nodes_[th.i].host # NoNode.host
    <3>1. thread'[t].pc \in {"search", "list"}
      BY <1>3, <2>1, <2>2, <2>4 DEF Slot0, ThreadState
    <3> QED
      BY <1>4, <3>1
  <2> QED
    BY <2>3, <2>4
<1>7. CASE t = HealthThread /\ ScanHost
  <2>1. thread'[t] = IF nodes_[th.i].host = th.node.host
                       THEN [th EXCEPT !.pc = "scan_port"] ELSE ScanNext(th)
    BY <1>7, GotoIs DEF ScanHost
  <2>2. CASE nodes_[th.i].host = th.node.host
    BY <1>2, <1>3, <1>7, <2>1, <2>2 DEF OwnSlot, OwnSlotWhole, Writing, ThreadState
  <2> QED
    BY <1>3, <1>4, <2>1, <2>2 DEF ScanNext, Round, Idle, ThreadState
<1>8. CASE t = HealthThread /\ ScanPort
  <2>1. /\ th.pc = "scan_port" /\ th.node # Self
        /\ thread'[t] = IF nodes_[th.i].port = th.node.port
                          THEN [th EXCEPT !.pc = "clear", !.left = Half] ELSE ScanNext(th)
    BY <1>3, <1>8, GotoIs DEF ScanPort, At, Good, HealthOK
  <2>2. CASE nodes_[th.i].port = th.node.port
    <3>1. th.i # 0
      <4> SUFFICES ASSUME th.i = 0 PROVE FALSE
        OBVIOUS
      <4>1. th.node.host = Self.host /\ th.node.port = Self.port
        BY <1>2, <1>8, <2>1, <2>2 DEF OwnSlot
      <4>2. th.node \in Entry /\ Self \in Entry
        BY <1>3, NodeIsEntry, SelfAssumption DEF ThreadState
      <4> QED
        BY <2>1, <4>1, <4>2, EntriesEqual
    <3>2. thread'[t].pc = "clear" /\ thread'[t].i = th.i
      BY <1>3, <2>1, <2>2 DEF ThreadState
    <3> QED
      BY <1>2, <1>8, <3>1, <3>2 DEF OwnSlot, OwnSlotWhole, Writing
  <2> QED
    BY <1>3, <1>4, <2>1, <2>2 DEF ScanNext, Round, Idle, ThreadState
<1>9. CASE ListHost(t) \/ ListPort(t) \/ (t = HealthThread /\ ListTest)
  BY <1>3, <1>4, <1>9, ListMoves
<1>10. CASE \/ t \in Worker /\ (Reply(t) \/ \E n \in Node \ {Self} : Request(t, n))
            \/ /\ t = HealthThread
               /\ BeginRound \/ CheckNext \/ MemberStays \/ RemoveNode \/ EndRound
  <2>1. \/ thread'[t] = Idle
        \/ \E n : thread'[t] = [Idle EXCEPT !.pc = "find", !.node = n]
        \/ thread'[t] = [Idle EXCEPT !.pc = "list_test"]
        \/ thread'[t] = NextMember(th) /\ th.pc = "round"
        \/ thread'[t] = Round(th)
        \/ thread'[t] = Slot0(th, "scan")
    BY <1>10, GotoIs DEF Reply, EndRound, Ends, Request, BeginRound, CheckNext, MemberStays,
                        RemoveNode, CheckEnds, At
  <2>2. th.pc = "round" => NextMember(th).pc \in {"find", "round"}
    BY <1>3 DEF NextMember, ThreadState
  <2>3. Round(th).pc = "round" /\ Slot0(th, "scan").pc = "scan"
    BY <1>3 DEF Round, Idle, Slot0, ThreadState
  <2>4. /\ Idle.pc = "idle"
        /\ \A n : [Idle EXCEPT !.pc = "find", !.node = n].pc = "find"
        /\ [Idle EXCEPT !.pc = "list_test"].pc = "list_test"
    BY DEF Idle
  <2>5. thread'[t].pc \in {"idle", "find", "list_test", "round", "scan"}
    <3>1. ASSUME NEW n, thread'[t] = [Idle EXCEPT !.pc = "find", !.node = n]
          PROVE  thread'[t].pc = "find"
      BY <2>4, <3>1
    <3> HIDE DEF th
    <3> QED
      BY <2>1, <2>2, <2>3, <2>4, <3>1, Zenon
  <2> QED
    BY <1>4, <2>5
<1> QED
  BY <1>5, <1>6, <1>7, <1>8, <1>9, <1>10 DEF Moves, WorkerStep, HealthStep

LEMMA OwnSlotWrite ==
  ASSUME Types, OwnSlot, NEW t \in Thread, NEW h \in Half, WriteHalf(t, h)
  PROVE  OwnSlot'
<1> DEFINE th == thread[t]
<1>0. HealthThread \in Thread
  BY DEF Thread
<1>1. Assigns(t, h) /\ Types'
  BY WriteStep
<1>2. th.i # 0 /\ nodes_'[0] = Self /\ 0 \in Slot
  BY <1>1, ZeroSlot DEF Assigns, OwnSlot, OwnSlotWhole, Writing
<1>3. /\ thread'[t].pc # "scan_port"
      /\ thread'[t].pc \in {"write", "clear"} => thread'[t].i = th.i
  <2>1. th \in ThreadState
    BY GoodThread
  <2>2. Written(t).pc \in {"round", "list"}
    BY <2>1 DEF Written, Round, Idle, Slot0, ThreadState
  <2>3. [th EXCEPT !.left = @ \ {h}].pc = th.pc /\ [th EXCEPT !.left = @ \ {h}].i = th.i
    BY <2>1 DEF ThreadState
  <2> QED
    BY <1>1, <2>2, <2>3 DEF Assigns
<1>4. \A u \in Thread \ {t} : thread'[u] = thread[u]
  BY <1>1 DEF Assigns
<1> QED
  BY <1>0, <1>2, <1>3, <1>4 DEF OwnSlot, OwnSlotWhole, Writing

-----------------------------------------------------------------------------
(* The table of a node that has just started: itself in slot 0, and nobody *)
(* twice.                                                                  *)
LEMMA InitTable ==
  ASSUME Init
  PROVE  /\ nodes_ \in [Slot -> Node \cup {NoNode}]
         /\ nodes_[0] = Self
         /\ \A i, j \in Slot : i # j /\ nodes_[i] = nodes_[j] => nodes_[i] = NoNode
<1> DEFINE alone == [EmptyTable EXCEPT ![0] = Self]
<1>1. EmptyTable \in Table /\ FreeSlots(EmptyTable) = Slot
  BY EmptyTableType DEF EmptyTable, FreeSlots, SlotsOf
<1>2. First(Slot) = 0
  <2>1. First(Slot) \in Slot /\ \A j \in Slot : First(Slot) <= j
    BY ZeroSlot, FirstIsLeast
  <2>2. First(Slot) <= 0 /\ First(Slot) \in Nat
    BY <2>1, ZeroSlot
  <2> QED
    BY <2>2
<1>3. AddNode(EmptyTable, Self) = alone
  BY <1>1, <1>2, ZeroSlot DEF AddNode
<1>4. /\ alone \in Table
      /\ \A i \in Slot : alone[i] = IF i = 0 THEN Self ELSE NoNode
  BY <1>1, SelfAssumption, ZeroSlot DEF EmptyTable, Table
<1> HIDE DEF alone
<1>5. CASE nodes_ = alone
  BY <1>4, <1>5, NoNodeAssumption, SelfAssumption, ZeroSlot DEF Table
<1>6. ASSUME NEW n \in Node \ {Self}, nodes_ = AddNode(alone, n)
      PROVE  /\ nodes_ \in [Slot -> Node \cup {NoNode}]
             /\ nodes_[0] = Self
             /\ \A i, j \in Slot : i # j /\ nodes_[i] = nodes_[j] => nodes_[i] = NoNode
  <2>1. CASE FreeSlots(alone) = {}
    BY <1>5, <1>6, <2>1 DEF AddNode
  <2>2. CASE FreeSlots(alone) # {}
    <3> DEFINE k == First(FreeSlots(alone))
    <3>1. k \in Slot /\ alone[k] = NoNode
      BY <1>4, <2>2, FreeSlotType
    <3>2. nodes_ = [alone EXCEPT ![k] = n]
      BY <1>6, <2>2 DEF AddNode
    <3> HIDE DEF k
    <3> QED
      BY <1>4, <1>6, <3>1, <3>2, NoNodeAssumption, SelfAssumption, ZeroSlot DEF Table
  <2> QED
    BY <2>1, <2>2
<1> QED
  BY <1>3, <1>5, <1>6 DEF Init

LEMMA InitTypes ==
  ASSUME Init
  PROVE  Types /\ OwnSlot
<1>1. \A t \in Thread : thread[t] = Idle
  BY DEF Init
<1>2. \A t \in Thread : Good(t, Idle)
  BY IdleType, NoListType DEF Good, HealthOK, WorkerOK, HealthPC, WorkerPC, Idle
<1>3. Threads
  BY <1>2, IdleType DEF Init, Threads
<1>4. nodes_ \in [Slot -> Entry]
  BY InitTable, NodeIsEntry
<1>5. Types
  BY <1>3, <1>4, BoundAssumption DEF Init, Types
<1>6. HealthThread \in Thread /\ Idle.pc = "idle"
  BY DEF Thread, Idle
<1>7. OwnSlot
  BY <1>1, <1>6, InitTable DEF OwnSlot, OwnSlotWhole, Writing
<1> QED
  BY <1>5, <1>7

LEMMA TypesSpec == Spec => [](Types /\ OwnSlot)
<1>1. Types /\ OwnSlot /\ [Next]_vars => (Types /\ OwnSlot)'
  <2> SUFFICES ASSUME Types, OwnSlot, [Next]_vars PROVE OwnSlot'
    BY TypesStep
  <2>1. CASE UNCHANGED vars
    BY <2>1 DEF vars, OwnSlot, OwnSlotWhole, Writing
  <2> QED
    BY <2>1, StepIs, OwnSlotLocal, OwnSlotWrite
<1> QED
  BY <1>1, InitTypes, PTL DEF Spec

-----------------------------------------------------------------------------
(* Whole entries.  Two threads that are in the middle of an assignment to  *)
(* one slot have mixed it, and the half that a thread has written to a     *)
(* slot that is not mixed is still there.                                  *)
LEMMA MidWriteIs ==
  ASSUME Types, NEW t \in Thread
  PROVE  /\ \A i : MidWrite(t, i) => thread[t].left # {} /\ thread[t].left # Half /\ i = thread[t].i
         /\ thread[t].left \subseteq Half
  BY GoodThread DEF MidWrite, Half, ThreadState

LEMMA WholeLocal ==
  ASSUME Types, Whole, NEW t \in Thread, Moves(t)
  PROVE  Whole'
<1>1. Types' /\ Local(t)
  BY LocalStep
<1>2. \A i : ~ MidWrite(t, i)'
  BY <1>1 DEF Local, MidWrite, Half
<1>3. \A u \in Thread \ {t} : thread'[u] = thread[u]
  BY <1>1 DEF Local
<1>4. \A u, v \in Thread : \A i \in Slot :
        u # v /\ MidWrite(u, i)' /\ MidWrite(v, i)' => i \in mixed'
  BY <1>1, <1>2, <1>3 DEF Local, Whole, MidWrite
<1>5. ASSUME NEW u \in Thread PROVE HalfWritten(u)'
  <2>1. CASE u = t
    BY <1>2, <2>1 DEF HalfWritten, MidWrite
  <2>2. CASE u # t
    BY <1>1, <1>3, <2>2 DEF Local, Whole, HalfWritten, Assigned
  <2> QED
    BY <2>1, <2>2
<1> QED
  BY <1>4, <1>5 DEF Whole

LEMMA WholeWrite ==
  ASSUME Types, Whole, NEW t \in Thread, NEW h \in Half, WriteHalf(t, h)
  PROVE  /\ Whole'
         /\ thread'[t].left = {} /\ thread[t].i \notin mixed' => nodes_'[thread[t].i] = Assigned(t)
<1> DEFINE th == thread[t]
           i == th.i
<1>1. Types' /\ Assigns(t, h) /\ th \in ThreadState /\ i \in Slot
  BY WriteStep, GoodThread
<1>2. \A u \in Thread \ {t} : thread'[u] = thread[u]
  BY <1>1 DEF Assigns
<1>3. /\ h \in th.left /\ th.left \subseteq Half /\ thread'[t].left = th.left \ {h}
      /\ th.pc \in {"write", "clear"}
  BY <1>1 DEF Assigns, ThreadState
<1>4. mixed' = IF th.left # Half THEN mixed
               ELSE IF \E u \in Thread \ {t} : MidWrite(u, i) THEN mixed \cup {i}
               ELSE mixed \ {i}
  BY <1>1 DEF Assigns, NoteWrite
<1>5. thread'[t].left # {} => thread'[t] = [th EXCEPT !.left = @ \ {h}]
  BY <1>1, <1>3 DEF Assigns
<1>6. thread'[t].left # {} => /\ thread'[t].i = i /\ thread'[t].pc = th.pc /\ thread'[t].node = th.node
                              /\ th.left = Half
  BY <1>1, <1>3, <1>5 DEF ThreadState, Half
<1>7. ASSUME NEW u \in Thread \ {t}, MidWrite(u, i) PROVE i \in mixed'
  <2>1. CASE th.left = Half
    BY <1>4, <1>7, <2>1
  <2>2. CASE th.left # Half
    <3>1. MidWrite(t, i)
      BY <1>3, <2>2 DEF MidWrite, Half
    <3> QED
      BY <1>1, <1>4, <1>7, <2>2, <3>1 DEF Whole
  <2> QED
    BY <2>1, <2>2
<1>8. ASSUME NEW u \in Thread, NEW v \in Thread, NEW j \in Slot,
             u # v, MidWrite(u, j)', MidWrite(v, j)'
      PROVE  j \in mixed'
  <2>1. CASE j = i
    BY <1>2, <1>7, <1>8, <2>1 DEF MidWrite
  <2>2. CASE j # i
    <3>1. u # t /\ v # t
      BY <1>6, <1>8, <2>2 DEF MidWrite
    <3>2. j \in mixed
      BY <1>2, <1>8, <3>1 DEF MidWrite, Whole
    <3> QED
      BY <1>4, <2>2, <3>2
  <2> QED
    BY <2>1, <2>2
<1>9. ASSUME NEW u \in Thread \ {t} PROVE HalfWritten(u)'
  <2> DEFINE j == thread[u].i
  <2> SUFFICES ASSUME thread[u].left \in {{"host"}, {"port"}}, j \notin mixed'
               PROVE  \A g \in Half \ thread[u].left : nodes_'[j][g] = Assigned(u)[g]
    BY <1>2, <1>9 DEF HalfWritten, Assigned
  <2>1. j # i /\ j \in Slot
    BY <1>7, GoodThread DEF MidWrite
  <2>2. j \notin mixed /\ nodes_'[j] = nodes_[j]
    BY <1>1, <1>4, <2>1 DEF Assigns
  <2> QED
    BY <2>2 DEF Whole, HalfWritten
<1>10. ASSUME thread'[t].left # {} PROVE HalfWritten(t)'
  <2>1. \A g \in Half \ thread'[t].left : g = h
    BY <1>3, <1>6, <1>10
  <2>2. Assigned(t)' = Assigned(t)
    BY <1>6, <1>10 DEF Assigned
  <2>3. nodes_'[i][h] = Assigned(t)[h]
    BY <1>1 DEF Assigns
  <2> QED
    BY <1>6, <1>10, <2>1, <2>2, <2>3 DEF HalfWritten
<1>11. HalfWritten(t)'
  BY <1>10 DEF HalfWritten
<1>12. ASSUME thread'[t].left = {}, i \notin mixed' PROVE nodes_'[i] = Assigned(t)
  <2>1. th.left = {h} /\ th.left # Half
    BY <1>3, <1>12 DEF Half
  <2>2. i \notin mixed /\ th.left \in {{"host"}, {"port"}}
    BY <1>4, <1>12, <2>1 DEF Half
  <2>3. \A g \in Half \ {h} : nodes_[i][g] = Assigned(t)[g]
    BY <2>1, <2>2 DEF Whole, HalfWritten
  <2>4. \A g \in Half : nodes_'[i][g] = Assigned(t)[g]
    BY <1>1, <2>3 DEF Assigns
  <2>5. nodes_'[i] \in Entry /\ Assigned(t) \in Entry
    BY <1>1, AssignedType DEF Types
  <2> QED
    BY <2>4, <2>5, EntriesEqual DEF Half
<1> QED
  BY <1>8, <1>9, <1>11, <1>12 DEF Whole

-----------------------------------------------------------------------------
(* What threads know.  Steps of other threads leave it true, since it is   *)
(* only about slots that they have not written to.                         *)
LEMMA ViewKept ==
  ASSUME NEW n1 \in [Slot -> Entry], NEW n2 \in [Slot -> Entry],
         NEW d1 \in SUBSET Slot, NEW d2 \in SUBSET Slot, NEW th, th.i \in Slot,
         d1 \subseteq d2,
         th.pc # "idle" => \A j \in Slot \ d2 : n2[j] = n1[j]
  PROVE  /\ WorkerView(n1, d1, th) => WorkerView(n2, d2, th)
         /\ th.pc # "idle" /\ d2 = {} => n2 = n1 /\ d1 = {}
<1>1. th.pc # "idle" /\ d2 = {} => n2 = n1 /\ d1 = {}
  OBVIOUS
<1>2. ASSUME WorkerView(n1, d1, th), th.pc # "idle" PROVE WorkerView(n2, d2, th)
  <2>1. \A j \in Slot : Listed(n1, d1, th.list, j) => Listed(n2, d2, th.list, j)
    BY <1>2 DEF Listed
  <2>2. ListingOK(n2, d2, th)
    BY <1>2, <2>1 DEF WorkerView, ListingOK
  <2> QED
    BY <1>1, <1>2, <2>2 DEF WorkerView
<1>3. th.pc = "idle" => WorkerView(n2, d2, th)
  BY DEF WorkerView, ListingOK, RegisterOK
<1> QED
  BY <1>1, <1>2, <1>3

LEMMA ViewsOfOthers ==
  ASSUME Types, Views, NEW t \in Thread,
         Moves(t) \/ \E h \in Half : WriteHalf(t, h)
  PROVE  /\ \A w \in Worker \ {t} : WorkerView(nodes_, disturbed[w], thread[w])'
         /\ HealthThread # t /\ disturbed'[HealthThread] = {} =>
              HealthView(nodes_, thread[HealthThread])'
<1>1. Types'
  BY LocalStep, WriteStep
<1>2. ASSUME NEW u \in Thread \ {t}
      PROVE  /\ thread'[u] = thread[u] /\ disturbed[u] \subseteq disturbed'[u]
             /\ thread[u].pc # "idle" => \A j \in Slot \ disturbed'[u] : nodes_'[j] = nodes_[j]
  <2>1. CASE Moves(t)
    BY <2>1, LocalStep DEF Local
  <2>2. ASSUME NEW h \in Half, WriteHalf(t, h)
        PROVE  /\ thread'[u] = thread[u] /\ disturbed[u] \subseteq disturbed'[u]
               /\ thread[u].pc # "idle" => \A j \in Slot \ disturbed'[u] : nodes_'[j] = nodes_[j]
    <3>1. Assigns(t, h)
      BY <2>2, WriteStep
    <3> QED
      BY <3>1 DEF Assigns
  <2> QED
    BY <2>1, <2>2
<1>3. ASSUME NEW w \in Worker \ {t} PROVE WorkerView(nodes_', disturbed'[w], thread'[w])
  <2>1. w \in Thread
    BY DEF Thread
  <2> QED
    BY <1>1, <1>2, <2>1, GoodThread, ViewKept DEF Types, Views
<1>4. ASSUME HealthThread # t, disturbed'[HealthThread] = {}
      PROVE  HealthView(nodes_', thread'[HealthThread])
  <2>1. HealthThread \in Thread
    BY DEF Thread
  <2>2. /\ nodes_ \in [Slot -> Entry] /\ nodes_' \in [Slot -> Entry]
        /\ disturbed[HealthThread] = {}
    BY <1>1, <1>2, <1>4, <2>1 DEF Types
  <2>3. CASE thread[HealthThread].pc = "idle"
    <3>1. thread'[HealthThread] = thread[HealthThread]
      BY <1>2, <1>4, <2>1
    <3>2. DOMAIN thread[HealthThread].list = {}
      BY <2>1, <2>3, GoodThread DEF Good, HealthOK
    <3> QED
      BY <2>3, <3>1, <3>2 DEF HealthView
  <2>4. CASE thread[HealthThread].pc # "idle"
    <3>1. nodes_' = nodes_
      BY <1>2, <1>4, <2>1, <2>2, <2>4
    <3> QED
      BY <1>2, <1>4, <2>1, <2>2, <3>1 DEF Views
  <2> QED
    BY <2>3, <2>4
<1> QED
  BY <1>3, <1>4

(* A worker: its view of a step's result follows from its view before.     *)
LEMMA ViewOfFind ==
  ASSUME Types, NEW w \in Worker, WorkerView(nodes_, disturbed[w], thread[w]),
         FindHost(w) \/ FindPort(w)
  PROVE  WorkerView(nodes_, disturbed[w], thread'[w])
<1> DEFINE th == thread[w]
<1>1. /\ w \in Thread /\ w # HealthThread /\ th \in ThreadState /\ Good(w, th) /\ th.i \in Slot
      /\ nodes_[th.i] \in Entry /\ th.node \in Entry
  BY GoodThread, ThreadAssumption DEF Thread, Types, ThreadState
<1>2. ASSUME NEW x, x.pc \in {"find", "search"}, x.pc = "search" => x.i = 0
      PROVE  WorkerView(nodes_, disturbed[w], x)
  BY <1>2, ZeroSlot DEF WorkerView, ListingOK, RegisterOK
<1>3. WorkerView(nodes_, disturbed[w], FindNext(w))
  <2>1. FindNext(w).pc \in {"find", "search"} /\ (FindNext(w).pc = "search" => FindNext(w).i = 0)
    BY <1>1 DEF FindNext, NotFound, Slot0, ThreadState
  <2> QED
    BY <1>2, <2>1
<1>4. CASE FindHost(w) /\ nodes_[th.i].host = th.node.host
  <2> DEFINE x == [th EXCEPT !.pc = "find_port"]
  <2>1. thread'[w] = x
    BY <1>1, <1>4, GotoIs DEF FindHost
  <2>2. x.pc = "find_port" /\ x.i = th.i /\ x.node = th.node
    BY <1>1 DEF ThreadState
  <2> HIDE DEF x
  <2>3. WorkerView(nodes_, disturbed[w], x)
    BY <1>4, <2>2 DEF WorkerView, ListingOK, RegisterOK
  <2> QED
    BY <2>1, <2>3
<1>5. CASE FindPort(w) /\ nodes_[th.i].port = th.node.port
  <2> DEFINE x == Slot0(th, "list")
  <2>1. thread'[w] = x /\ th.pc = "find_port"
    BY <1>1, <1>5, GotoIs DEF FindPort, Found, At
  <2>2. x.pc = "list" /\ x.i = 0 /\ x.node = th.node
    BY <1>1 DEF ThreadState, Slot0
  <2> HIDE DEF x
  <2>3. ASSUME disturbed[w] = {} PROVE NodeInCluster(nodes_, th.node)
    <3>1. nodes_[th.i].host = th.node.host
      BY <2>1, <2>3 DEF WorkerView, RegisterOK
    <3>2. nodes_[th.i] = th.node
      BY <1>1, <1>5, <3>1, EntriesEqual
    <3> QED
      BY <1>1, <3>2 DEF NodeInCluster, SlotsOf
  <2>4. WorkerView(nodes_, disturbed[w], x)
    BY <2>2, <2>3, ZeroSlot DEF WorkerView, ListingOK, RegisterOK
  <2> QED
    BY <2>1, <2>4
<1>6. CASE \/ FindHost(w) /\ nodes_[th.i].host # th.node.host
           \/ FindPort(w) /\ nodes_[th.i].port # th.node.port
  <2>1. thread'[w] = FindNext(w)
    BY <1>1, <1>6, GotoIs DEF FindHost, FindPort
  <2> QED
    BY <1>3, <2>1
<1> QED
  BY <1>4, <1>5, <1>6

LEMMA ViewOfSearch ==
  ASSUME Types, NEW w \in Worker, WorkerView(nodes_, disturbed[w], thread[w]), Search(w)
  PROVE  WorkerView(nodes_, disturbed[w], thread'[w])
<1> DEFINE th == thread[w]
           d == disturbed[w]
<1>1. /\ w \in Thread /\ th \in ThreadState /\ Good(w, th) /\ th.i \in Slot /\ th.pc = "search"
  BY GoodThread DEF Thread, Search, At
<1>2. d = {} => \A j \in Slot : j < th.i => nodes_[j].host # NoNode.host
  BY <1>1 DEF WorkerView, RegisterOK
<1>3. thread'[w] = IF nodes_[th.i].host = NoNode.host
                     THEN [th EXCEPT !.pc = "write", !.left = Half]
                   ELSE IF th.i + 1 \in Slot
                     THEN [th EXCEPT !.i = @ + 1]
                   ELSE Slot0(th, "list")
  BY <1>1, GotoIs DEF Search
<1>4. CASE nodes_[th.i].host = NoNode.host
  <2>1. thread'[w].pc = "write" /\ thread'[w].left = Half
    BY <1>1, <1>3, <1>4 DEF ThreadState
  <2> QED
    BY <2>1 DEF WorkerView, ListingOK, RegisterOK
<1>5. CASE nodes_[th.i].host # NoNode.host
  <2>1. d = {} => \A j \in Slot : j < th.i + 1 => nodes_[j].host # NoNode.host
    <3>1. \A j \in Slot : j < th.i + 1 => j < th.i \/ j = th.i
      BY <1>1, MaxNumNodesAssumption DEF Slot
    <3> QED
      BY <1>2, <1>5, <3>1
  <2>2. CASE th.i + 1 \in Slot
    <3>1. thread'[w].pc = "search" /\ thread'[w].i = th.i + 1
      BY <1>1, <1>3, <1>5, <2>2 DEF ThreadState
    <3> QED
      BY <2>1, <3>1 DEF WorkerView, ListingOK, RegisterOK
  <2>3. CASE th.i + 1 \notin Slot
    <3>1. thread'[w].pc = "list" /\ thread'[w].i = 0
      BY <1>1, <1>3, <1>5, <2>3 DEF ThreadState, Slot0
    <3>2. \A j \in Slot : j < th.i + 1
      BY <1>1, <2>3, MaxNumNodesAssumption DEF Slot
    <3>3. d = {} => Full(nodes_)
      BY <2>1, <3>2 DEF Full
    <3> QED
      BY <3>1, <3>3, ZeroSlot DEF WorkerView, ListingOK, RegisterOK
  <2> QED
    BY <2>2, <2>3
<1> QED
  BY <1>4, <1>5

(* Listing a slot; the node was registered before the listing began.       *)
LEMMA ViewOfList ==
  ASSUME Types, NEW w \in Worker, WorkerView(nodes_, disturbed[w], thread[w]),
         ListHost(w) \/ ListPort(w)
  PROVE  WorkerView(nodes_, disturbed[w], thread'[w])
<1> DEFINE th == thread[w]
           i == th.i
           d == disturbed[w]
<1>1. /\ w \in Thread /\ w # HealthThread /\ th \in ThreadState /\ Good(w, th) /\ i \in Slot /\ i \in Nat
      /\ th.pc \in {"list", "list_port"} /\ th.list \in Lists
      /\ \A k \in DOMAIN th.list : k < i
  BY GoodThread, ThreadAssumption, ZeroSlot DEF Thread, ThreadState, Good, ListHost, ListPort, At
<1>2. /\ \A j \in Slot : j < i => Listed(nodes_, d, th.list, j)
      /\ d = {} => NodeInCluster(nodes_, th.node) \/ Full(nodes_)
  BY <1>1 DEF WorkerView, ListingOK, RegisterOK
<1>3. ASSUME NEW x \in ThreadState, x.i = i, x.node = th.node,
             \A j \in Slot : j <= i => Listed(nodes_, d, x.list, j)
      PROVE  WorkerView(nodes_, d, ListNext(w, x))
  <2>1. CASE i + 1 \in Slot
    <3> DEFINE y == [x EXCEPT !.pc = "list", !.i = @ + 1]
    <3>1. ListNext(w, x) = y
      BY <1>1, <1>3, <2>1 DEF ListNext
    <3>2. y.pc = "list" /\ y.i = i + 1 /\ y.list = x.list /\ y.node = th.node
      BY <1>3 DEF ThreadState
    <3> HIDE DEF y
    <3>3. \A j \in Slot : j < i + 1 => j <= i
      BY <1>1, ZeroSlot
    <3>4. WorkerView(nodes_, d, y)
      BY <1>2, <1>3, <3>2, <3>3 DEF WorkerView, ListingOK, RegisterOK
    <3> QED
      BY <3>1, <3>4
  <2>2. CASE i + 1 \notin Slot
    <3> DEFINE y == Slot0(x, "reply")
    <3>1. ListNext(w, x) = y
      BY <1>1, <1>3, <2>2 DEF ListNext
    <3>2. y.pc = "reply" /\ y.list = x.list /\ y.node = th.node
      BY <1>3 DEF ThreadState, Slot0
    <3> HIDE DEF y
    <3>3. \A j \in Slot : j <= i
      BY <1>1, <2>2, MaxNumNodesAssumption DEF Slot
    <3>4. WorkerView(nodes_, d, y)
      BY <1>2, <1>3, <3>2, <3>3 DEF WorkerView, ListingOK, RegisterOK
    <3> QED
      BY <3>1, <3>4
  <2> QED
    BY <2>1, <2>2
<1>4. CASE ListHost(w) /\ nodes_[i].host = NoNode.host
  <2>1. thread'[w] = ListNext(w, th)
    BY <1>1, <1>4, GotoIs DEF ListHost
  <2>2. i \notin DOMAIN th.list
    BY <1>1
  <2>3. Listed(nodes_, d, th.list, i)
    BY <1>4, <2>2 DEF Listed
  <2>4. \A j \in Slot : j <= i => j < i \/ j = i
    BY <1>1, ZeroSlot
  <2>5. \A j \in Slot : j <= i => Listed(nodes_, d, th.list, j)
    BY <1>2, <2>3, <2>4
  <2> QED
    BY <1>1, <1>3, <2>1, <2>5
<1>5. CASE ListHost(w) /\ nodes_[i].host # NoNode.host
  <2> DEFINE x == [th EXCEPT !.pc = "list_port", !.host = nodes_[i].host]
  <2>1. thread'[w] = x
    BY <1>1, <1>5, GotoIs DEF ListHost
  <2>2. x.pc = "list_port" /\ x.host = nodes_[i].host /\ x.i = i /\ x.list = th.list /\ x.node = th.node
    BY <1>1 DEF ThreadState
  <2> HIDE DEF x
  <2>3. WorkerView(nodes_, d, x)
    BY <1>2, <1>5, <2>2 DEF WorkerView, ListingOK, RegisterOK
  <2> QED
    BY <2>1, <2>3
<1>6. CASE ListPort(w)
  <2> DEFINE entry == [host |-> th.host, port |-> nodes_[i].port]
             l == [k \in DOMAIN th.list \cup {i} |-> IF k = i THEN entry ELSE th.list[k]]
             x == [th EXCEPT !.host = NoNode.host, !.list = l]
  <2>1. thread'[w] = ListNext(w, x) /\ th.pc = "list_port"
    BY <1>1, <1>6, GotoIs DEF ListPort, At
  <2>2. th.host # NoNode.host /\ (i \notin d => nodes_[i].host = th.host)
    BY <2>1 DEF WorkerView, ListingOK
  <2>3. nodes_[i] \in Entry /\ entry \in Entry
    BY <1>1 DEF Types, ThreadState, Entry, Host
  <2>4. i \notin d => entry = nodes_[i]
    BY <2>2, <2>3, EntriesEqual
  <2>5. l \in Lists
    <3> HIDE DEF entry
    <3> QED
      BY <1>1, <2>3, ListsWith
  <2>6. x \in ThreadState /\ x.i = i /\ x.node = th.node /\ x.list = l
    <3> HIDE DEF l
    <3> QED
      BY <1>1, <2>5 DEF ThreadState, Host
  <2>7. Listed(nodes_, d, l, i)
    <3>1. i \in DOMAIN l /\ l[i] = entry
      OBVIOUS
    <3> QED
      BY <2>2, <2>4, <3>1 DEF Listed
  <2>8. ASSUME NEW j \in Slot, j <= i PROVE Listed(nodes_, d, l, j)
    <3>1. CASE j < i
      <4>1. j # i
        BY <1>1, <3>1, ZeroSlot
      <4>2. (j \in DOMAIN l <=> j \in DOMAIN th.list) /\ (j \in DOMAIN l => l[j] = th.list[j])
        BY <4>1
      <4> QED
        BY <1>2, <3>1, <4>2 DEF Listed
    <3>2. CASE j = i
      BY <2>7, <3>2
    <3> QED
      BY <1>1, <2>8, <3>1, <3>2, ZeroSlot
  <2> HIDE DEF x, l
  <2> QED
    BY <1>3, <2>1, <2>6, <2>8
<1> QED
  BY <1>4, <1>5, <1>6

LEMMA ViewOfWrite ==
  ASSUME Types, NEW w \in Worker, WorkerView(nodes_, disturbed[w], thread[w]),
         NEW h \in Half, WriteHalf(w, h)
  PROVE  WorkerView(nodes_, disturbed[w], thread[w])'
<1> DEFINE th == thread[w]
           i == th.i
<1>1. /\ w \in Thread /\ w # HealthThread /\ th \in ThreadState /\ Good(w, th) /\ i \in Slot
  BY GoodThread, ThreadAssumption DEF Thread
<1>2. Types' /\ Assigns(w, h)
  BY <1>1, WriteStep
<1>3. th.pc = "write" /\ Assigned(w) = th.node /\ disturbed'[w] = disturbed[w] /\ th.node \in Entry
  BY <1>1, <1>2 DEF Assigns, Good, WorkerOK, WorkerPC, Assigned, ThreadState
<1>4. ASSUME disturbed[w] = {}
      PROVE  \A g \in Half \ (th.left \ {h}) : nodes_'[i][g] = th.node[g]
  BY <1>2, <1>3, <1>4 DEF WorkerView, RegisterOK, Assigns
<1>5. CASE th.left = {h}
  <2>1. thread'[w].pc = "list" /\ thread'[w].i = 0 /\ thread'[w].node = th.node
    BY <1>1, <1>2, <1>5 DEF Assigns, Written, Slot0, ThreadState
  <2>2. ASSUME disturbed[w] = {} PROVE NodeInCluster(nodes_', th.node)
    <3>1. nodes_'[i] \in Entry
      BY <1>1, <1>2 DEF Types
    <3>2. nodes_'[i] = th.node
      BY <1>3, <1>4, <1>5, <2>2, <3>1, EntriesEqual DEF Half
    <3> QED
      BY <1>1, <3>2 DEF NodeInCluster, SlotsOf
  <2> QED
    BY <1>3, <2>1, <2>2, ZeroSlot DEF WorkerView, ListingOK, RegisterOK
<1>6. CASE th.left # {h}
  <2>1. thread'[w] = [th EXCEPT !.left = @ \ {h}]
    BY <1>2, <1>6 DEF Assigns
  <2>2. /\ thread'[w].pc = "write" /\ thread'[w].i = i /\ thread'[w].node = th.node
        /\ thread'[w].left = th.left \ {h}
    BY <1>1, <1>3, <2>1 DEF ThreadState
  <2> QED
    BY <1>3, <1>4, <2>2 DEF WorkerView, ListingOK, RegisterOK
<1> QED
  BY <1>5, <1>6

LEMMA ViewsOfWorker ==
  ASSUME Types, Views, NEW w \in Worker, Moves(w) \/ \E h \in Half : WriteHalf(w, h)
  PROVE  WorkerView(nodes_, disturbed[w], thread[w])'
<1>1. w \in Thread /\ w # HealthThread
  BY ThreadAssumption DEF Thread
<1>2. WorkerView(nodes_, disturbed[w], thread[w])
  BY DEF Views
<1>3. CASE FindHost(w) \/ FindPort(w) \/ Search(w) \/ ListHost(w) \/ ListPort(w)
  <2>1. nodes_' = nodes_ /\ disturbed' = disturbed
    BY <1>3 DEF FindHost, FindPort, Search, ListHost, ListPort, history
  <2> QED
    BY <1>2, <1>3, <2>1, ViewOfFind, ViewOfSearch, ViewOfList
<1>4. CASE Reply(w) \/ \E n \in Node \ {Self} : Request(w, n)
  <2>1. \/ thread'[w] = Idle
        \/ \E n \in Node : thread'[w] = [Idle EXCEPT !.pc = "find", !.node = n]
    BY <1>1, <1>4, GotoIs DEF Reply, Ends, Request
  <2>2. thread'[w].pc \in {"idle", "find"}
    <3>1. Idle.pc = "idle" /\ \A n \in Node : [Idle EXCEPT !.pc = "find", !.node = n].pc = "find"
      BY DEF Idle
    <3> QED
      BY <2>1, <3>1, Zenon
  <2> QED
    BY <2>2 DEF WorkerView, ListingOK, RegisterOK
<1>5. CASE \E h \in Half : WriteHalf(w, h)
  BY <1>2, <1>5, ViewOfWrite
<1> QED
  BY <1>1, <1>3, <1>4, <1>5 DEF Moves, WorkerStep

(* The health thread: the member that it handles is in the table, at the   *)
(* slot that its scan is at or later, and before the rest of the copy.     *)
LEMMA HealthFind ==
  ASSUME Types, HealthView(nodes_, thread[HealthThread]),
         FindHost(HealthThread) \/ FindPort(HealthThread) \/ ScanHost \/ ScanPort
  PROVE  HealthView(nodes_, thread'[HealthThread])
<1> DEFINE H == HealthThread
           th == thread[H]
<1>1. /\ H \in Thread /\ th \in ThreadState /\ th.i \in Slot
      /\ th.pc \in {"find", "find_port", "scan", "scan_port"}
  BY GoodThread DEF Thread, FindHost, FindPort, ScanHost, ScanPort, At
<1>2. \A k \in DOMAIN th.list : nodes_[k] = th.list[k]
  BY DEF HealthView
<1>3. PICK k \in Slot : nodes_[k] = th.node /\ th.i <= k /\ \A j \in DOMAIN th.list : k < j
  BY <1>1 DEF HealthView
<1>4. ASSUME NEW x \in ThreadState, x.list = th.list, x.node = th.node, x.i \in Slot, x.i <= k,
             x.pc \in {"find", "find_port", "check", "scan", "scan_port"}
      PROVE  HealthView(nodes_, x)
  BY <1>2, <1>3, <1>4 DEF HealthView
<1>5. ASSUME nodes_[th.i] # th.node PROVE th.i + 1 \in Slot /\ th.i + 1 <= k
  BY <1>1, <1>3, <1>5, MaxNumNodesAssumption DEF Slot
<1>6. 0 \in Slot /\ 0 <= k
  BY ZeroSlot, MaxNumNodesAssumption DEF Slot
<1>7. CASE FindHost(H) \/ FindPort(H)
  <2>1. \/ thread'[H] = [th EXCEPT !.pc = "find_port"]
        \/ thread'[H] = Found(H)
        \/ thread'[H] = FindNext(H) /\ nodes_[th.i] # th.node
    BY <1>1, <1>7, GotoIs DEF FindHost, FindPort
  <2>2. CASE thread'[H] = [th EXCEPT !.pc = "find_port"]
    BY <1>1, <1>3, <1>4, <2>2 DEF ThreadState, HealthPC
  <2>3. CASE thread'[H] = Found(H)
    <3>1. /\ Found(H) \in ThreadState /\ Found(H).pc = "check" /\ Found(H).i = 0
          /\ Found(H).list = th.list /\ Found(H).node = th.node
      BY <1>1, <1>6 DEF ThreadState, HealthPC, Found, Slot0
    <3> QED
      BY <1>4, <1>6, <2>3, <3>1
  <2>4. CASE thread'[H] = FindNext(H) /\ nodes_[th.i] # th.node
    <3> DEFINE x == [th EXCEPT !.pc = "find", !.i = @ + 1]
    <3>1. thread'[H] = x
      BY <1>5, <2>4 DEF FindNext
    <3>2. /\ x \in ThreadState /\ x.pc = "find" /\ x.i = th.i + 1
          /\ x.list = th.list /\ x.node = th.node
      BY <1>1, <1>5, <2>4 DEF ThreadState, HealthPC
    <3> HIDE DEF x
    <3> QED
      BY <1>4, <1>5, <2>4, <3>1, <3>2
  <2> QED
    BY <2>1, <2>2, <2>3, <2>4
<1>8. CASE ScanHost \/ ScanPort
  <2>1. \/ thread'[H] = [th EXCEPT !.pc = "scan_port"]
        \/ thread'[H] = [th EXCEPT !.pc = "clear", !.left = Half]
        \/ thread'[H] = ScanNext(th) /\ nodes_[th.i] # th.node
    BY <1>1, <1>8, GotoIs DEF ScanHost, ScanPort
  <2>2. CASE thread'[H] = [th EXCEPT !.pc = "scan_port"]
    BY <1>1, <1>3, <1>4, <2>2 DEF ThreadState, HealthPC
  <2>3. CASE thread'[H] = [th EXCEPT !.pc = "clear", !.left = Half]
    <3>1. thread'[H].pc = "clear" /\ thread'[H].i = th.i /\ thread'[H].list = th.list
      BY <1>1, <2>3 DEF ThreadState
    <3>2. DOMAIN th.list \subseteq Slot
      BY <1>1, ListsDomain DEF ThreadState
    <3>3. \A j \in DOMAIN th.list : th.i < j
      BY <1>1, <1>3, <3>2, MaxNumNodesAssumption DEF Slot
    <3> QED
      BY <1>2, <3>1, <3>3 DEF HealthView
  <2>4. CASE thread'[H] = ScanNext(th) /\ nodes_[th.i] # th.node
    <3> DEFINE x == [th EXCEPT !.pc = "scan", !.i = @ + 1]
    <3>1. thread'[H] = x
      BY <1>5, <2>4 DEF ScanNext
    <3>2. /\ x \in ThreadState /\ x.pc = "scan" /\ x.i = th.i + 1
          /\ x.list = th.list /\ x.node = th.node
      BY <1>1, <1>5, <2>4 DEF ThreadState, HealthPC
    <3> HIDE DEF x
    <3> QED
      BY <1>4, <1>5, <2>4, <3>1, <3>2
  <2> QED
    BY <2>1, <2>2, <2>3, <2>4
<1> QED
  BY <1>7, <1>8

LEMMA HealthList ==
  ASSUME Types, HealthView(nodes_, thread[HealthThread]),
         ListTest \/ ListHost(HealthThread) \/ ListPort(HealthThread)
  PROVE  HealthView(nodes_, thread'[HealthThread])
<1> DEFINE H == HealthThread
           th == thread[H]
           i == th.i
<1>1. /\ H \in Thread /\ th \in ThreadState /\ i \in Slot /\ th.list \in Lists
      /\ \A k \in DOMAIN th.list : nodes_[k] = th.list[k]
  BY GoodThread DEF Thread, HealthView, ThreadState
<1>2. ASSUME NEW x \in ThreadState, \A k \in DOMAIN x.list : nodes_[k] = x.list[k]
      PROVE  HealthView(nodes_, ListNext(H, x))
  <2>1. /\ ListNext(H, x).pc \in {"list_test", "round"}
        /\ ListNext(H, x).list = x.list
    BY <1>2 DEF ListNext, Round, Idle, ThreadState
  <2> QED
    BY <1>2, <2>1 DEF HealthView
<1>3. CASE ListTest
  <2>1. thread'[H] \in {ListNext(H, th), [th EXCEPT !.pc = "list"]}
    BY <1>1, <1>3, GotoIs DEF ListTest
  <2>2. [th EXCEPT !.pc = "list"].pc = "list" /\ [th EXCEPT !.pc = "list"].list = th.list
    BY <1>1 DEF ThreadState
  <2>3. HealthView(nodes_, [th EXCEPT !.pc = "list"])
    BY <1>1, <2>2 DEF HealthView
  <2> QED
    BY <1>1, <1>2, <2>1, <2>3
<1>4. CASE ListHost(H)
  <2> DEFINE x == [th EXCEPT !.pc = "list_port", !.host = nodes_[i].host]
  <2>1. thread'[H] = x
    BY <1>1, <1>4, GotoIs DEF ListHost
  <2>2. x.pc = "list_port" /\ x.host = nodes_[i].host /\ x.i = i /\ x.list = th.list
    BY <1>1 DEF ThreadState
  <2> HIDE DEF x
  <2>3. HealthView(nodes_, x)
    BY <1>1, <2>2 DEF HealthView
  <2> QED
    BY <2>1, <2>3
<1>5. CASE ListPort(H)
  <2> DEFINE entry == [host |-> th.host, port |-> nodes_[i].port]
             l == [k \in DOMAIN th.list \cup {i} |-> IF k = i THEN entry ELSE th.list[k]]
             x == [th EXCEPT !.host = NoNode.host, !.list = l]
  <2>1. thread'[H] = ListNext(H, x) /\ th.host = nodes_[i].host
    BY <1>1, <1>5, GotoIs DEF ListPort, At, HealthView
  <2>2. nodes_[i] \in Entry /\ entry \in Entry
    BY <1>1 DEF Types, ThreadState, Entry, Host
  <2>3. entry = nodes_[i]
    BY <2>1, <2>2, EntriesEqual
  <2>4. l \in Lists
    <3> HIDE DEF entry
    <3> QED
      BY <1>1, <2>2, ListsWith
  <2>5. x \in ThreadState /\ x.list = l
    <3> HIDE DEF l
    <3> QED
      BY <1>1, <2>4 DEF ThreadState, Host
  <2>6. \A k \in DOMAIN l : nodes_[k] = l[k]
    <3> HIDE DEF entry
    <3> QED
      BY <1>1, <2>3
  <2> HIDE DEF x, l
  <2> QED
    BY <1>2, <2>1, <2>5, <2>6
<1> QED
  BY <1>3, <1>4, <1>5

LEMMA HealthRound ==
  ASSUME Types, HealthView(nodes_, thread[HealthThread]),
         CheckNext \/ MemberStays \/ RemoveNode
  PROVE  HealthView(nodes_, thread'[HealthThread])
<1> DEFINE H == HealthThread
           th == thread[H]
<1>1. /\ H \in Thread /\ th \in ThreadState /\ th.list \in Lists
      /\ \A k \in DOMAIN th.list : nodes_[k] = th.list[k]
  BY GoodThread DEF Thread, HealthView, ThreadState
<1>2. CASE MemberStays
  <2>1. thread'[H] = Round(th)
    BY <1>1, <1>2, GotoIs DEF MemberStays, CheckEnds
  <2>2. Round(th).pc = "round" /\ Round(th).list = th.list
    BY <1>1 DEF Round, Idle, ThreadState
  <2> QED
    BY <1>1, <2>1, <2>2 DEF HealthView
<1>3. CASE RemoveNode
  <2>1. thread'[H] = Slot0(th, "scan") /\ th.pc = "check"
    BY <1>1, <1>3, GotoIs DEF RemoveNode, CheckEnds, At
  <2>2. PICK k \in Slot : nodes_[k] = th.node /\ \A j \in DOMAIN th.list : k < j
    BY <2>1 DEF HealthView
  <2>3. /\ Slot0(th, "scan").pc = "scan" /\ Slot0(th, "scan").i = 0
        /\ Slot0(th, "scan").list = th.list /\ Slot0(th, "scan").node = th.node
    BY <1>1 DEF Slot0, ThreadState
  <2>4. 0 <= k
    BY MaxNumNodesAssumption DEF Slot
  <2> QED
    BY <1>1, <2>1, <2>2, <2>3, <2>4 DEF HealthView
<1>4. CASE CheckNext
  <2> DEFINE k == First(DOMAIN th.list)
             rest == [j \in DOMAIN th.list \ {k} |-> th.list[j]]
  <2>1. th.pc = "round" /\ DOMAIN th.list # {} /\ DOMAIN th.list \in SUBSET Slot
    BY <1>1, <1>4, ListsDomain DEF CheckNext, At
  <2>2. k \in DOMAIN th.list /\ \A j \in DOMAIN th.list : k <= j
    BY <2>1, FirstIsLeast
  <2>3. \A j \in DOMAIN rest : k < j /\ nodes_[j] = rest[j] /\ 0 <= k
    <3>1. \A j \in DOMAIN th.list \ {k} : k < j /\ 0 <= k
      BY <2>1, <2>2, MaxNumNodesAssumption DEF Slot
    <3> HIDE DEF k
    <3> QED
      BY <1>1, <3>1
  <2>4. k \in Slot /\ nodes_[k] = th.list[k] /\ 0 <= k
    BY <1>1, <2>1, <2>2, MaxNumNodesAssumption DEF Slot
  <2>5. thread'[H] = IF th.list[k] = Self THEN [th EXCEPT !.list = rest]
                       ELSE [th EXCEPT !.list = rest, !.node = th.list[k], !.pc = "find"]
    BY <1>1, <1>4, GotoIs DEF CheckNext, NextMember
  <2>6. th.i = 0
    BY <1>1, <2>1, GoodThread DEF Good, HealthOK
  <2> HIDE DEF k, rest
  <2>7. CASE th.list[k] = Self
    <3>1. thread'[H].pc = "round" /\ thread'[H].list = rest
      BY <1>1, <2>1, <2>5, <2>7 DEF ThreadState
    <3> QED
      BY <2>3, <3>1 DEF HealthView
  <2>8. CASE th.list[k] # Self
    <3>1. /\ thread'[H].pc = "find" /\ thread'[H].list = rest /\ thread'[H].node = th.list[k]
          /\ thread'[H].i = 0
      BY <1>1, <2>1, <2>5, <2>6, <2>8 DEF ThreadState
    <3> QED
      BY <2>3, <2>4, <3>1 DEF HealthView
  <2> QED
    BY <2>7, <2>8
<1> QED
  BY <1>2, <1>3, <1>4

LEMMA HealthWrite ==
  ASSUME Types, HealthView(nodes_, thread[HealthThread]), NEW h \in Half, WriteHalf(HealthThread, h)
  PROVE  HealthView(nodes_, thread[HealthThread])'
<1> DEFINE H == HealthThread
           th == thread[H]
<1>1. H \in Thread /\ th \in ThreadState /\ Good(H, th)
  BY GoodThread DEF Thread
<1>2. Assigns(H, h)
  BY <1>1, WriteStep
<1>3. th.pc = "clear"
  BY <1>1, <1>2 DEF Assigns, Good, HealthOK, HealthPC
<1>4. \A j \in DOMAIN th.list : th.i < j /\ j \in Slot /\ j # th.i
  BY <1>1, <1>3, ListsDomain, MaxNumNodesAssumption DEF HealthView, ThreadState, Slot
<1>5. \A j \in DOMAIN th.list : nodes_'[j] = th.list[j]
  BY <1>2, <1>4 DEF HealthView, Assigns
<1>6. CASE th.left = {h}
  <2>1. thread'[H] = Round(th)
    BY <1>2, <1>6 DEF Assigns, Written
  <2>2. Round(th).pc = "round" /\ Round(th).list = th.list
    BY <1>1 DEF Round, Idle, ThreadState
  <2> QED
    BY <1>5, <2>1, <2>2 DEF HealthView
<1>7. CASE th.left # {h}
  <2>1. thread'[H].pc = "clear" /\ thread'[H].list = th.list /\ thread'[H].i = th.i
    BY <1>1, <1>2, <1>3, <1>7 DEF Assigns, ThreadState
  <2> QED
    BY <1>4, <1>5, <2>1 DEF HealthView
<1> QED
  BY <1>6, <1>7

LEMMA ViewsOfHealth ==
  ASSUME Types, Views, Moves(HealthThread) \/ \E h \in Half : WriteHalf(HealthThread, h),
         disturbed'[HealthThread] = {}
  PROVE  HealthView(nodes_, thread[HealthThread])'
<1>1. HealthThread \in Thread /\ HealthThread \notin Worker
  BY ThreadAssumption DEF Thread
<1>2. CASE BeginRound \/ EndRound
  <2>1. thread'[HealthThread] \in {Idle, [Idle EXCEPT !.pc = "list_test"]}
    BY <1>1, <1>2, GotoIs DEF BeginRound, EndRound, Ends
  <2>2. thread'[HealthThread].pc \in {"idle", "list_test"} /\ DOMAIN thread'[HealthThread].list = {}
    BY <2>1, NoListType DEF Idle
  <2> QED
    BY <2>2 DEF HealthView
<1>3. CASE \/ FindHost(HealthThread) \/ FindPort(HealthThread) \/ ScanHost \/ ScanPort
           \/ ListTest \/ ListHost(HealthThread) \/ ListPort(HealthThread)
           \/ CheckNext \/ MemberStays \/ RemoveNode
  <2>1. nodes_' = nodes_ /\ disturbed' = disturbed
    BY <1>3 DEF FindHost, FindPort, ScanHost, ScanPort, ListTest, ListHost, ListPort, CheckNext,
                MemberStays, RemoveNode, CheckEnds, history
  <2>2. HealthView(nodes_, thread[HealthThread])
    BY <2>1 DEF Views
  <2> QED
    BY <1>3, <2>1, <2>2, HealthFind, HealthList, HealthRound
<1>4. ASSUME NEW h \in Half, WriteHalf(HealthThread, h)
      PROVE  HealthView(nodes_, thread[HealthThread])'
  <2>1. disturbed[HealthThread] = {}
    BY <1>1, <1>4, WriteStep DEF Assigns
  <2> QED
    BY <1>4, <2>1, HealthWrite DEF Views
<1> QED
  BY <1>1, <1>2, <1>3, <1>4 DEF Moves, HealthStep

LEMMA ViewsStep ==
  ASSUME Types, Views, [Next]_vars
  PROVE  Views'
<1>1. CASE UNCHANGED vars
  BY <1>1 DEF vars, history, Views
<1>2. ASSUME NEW t \in Thread, Moves(t) \/ \E h \in Half : WriteHalf(t, h)
      PROVE  Views'
  BY <1>2, ViewsOfOthers, ViewsOfWorker, ViewsOfHealth DEF Views
<1> QED
  BY <1>1, <1>2, StepIs

-----------------------------------------------------------------------------
(* No node twice.  What a local step does to the doubts and to the node    *)
(* that a worker serves ...                                                *)
LEMMA SameDoubt ==
  ASSUME Types, NEW t \in Thread, Local(t)
  PROVE  \A j \in Slot : InDoubt(j)' <=> InDoubt(j)
<1>1. \A j : ~ MidWrite(t, j) /\ ~ MidWrite(t, j)'
  BY DEF Local, MidWrite, Half
<1>2. \A u \in Thread \ {t} : \A j : MidWrite(u, j)' <=> MidWrite(u, j)
  BY DEF Local, MidWrite
<1> QED
  BY <1>1, <1>2 DEF Local, InDoubt

(* ... for a worker: it serves the node that it served, or none, or one    *)
(* that it was asked for; and its scan goes on past slots without it.      *)
LEMMA NodeServed ==
  ASSUME Types, NEW t \in Thread, Moves(t)
  PROVE  /\ twice \subseteq twice'
         /\ t \in Worker =>
              \/ thread'[t].node \in {thread[t].node, NoNode}
              \/ /\ thread'[t].pc = "find" /\ thread'[t].i = 0
                 /\ \A u \in Worker : thread[u].node = thread'[t].node => thread[u].node \in twice'
<1>1. twice \subseteq twice'
  BY DEF Moves, WorkerStep, HealthStep, FindHost, FindPort, ListHost, ListPort,
       Request, Search, Reply, Ends, BeginRound, ListTest, CheckNext, MemberStays, RemoveNode,
       CheckEnds, ScanHost, ScanPort, EndRound, history
<1>2. t \in Worker => t # HealthThread /\ thread[t] \in ThreadState
  BY ThreadAssumption, GoodThread
<1>3. ASSUME NEW n \in Node, Request(t, n), t \in Worker
      PROVE  /\ thread'[t].pc = "find" /\ thread'[t].i = 0
             /\ \A u \in Worker : thread[u].node = thread'[t].node => thread[u].node \in twice'
  <2>1. thread'[t] = [Idle EXCEPT !.pc = "find", !.node = n]
    BY <1>3, GotoIs DEF Request
  <2>2. thread'[t].pc = "find" /\ thread'[t].i = 0 /\ thread'[t].node = n
    BY <2>1 DEF Idle
  <2>3. twice' = twice \cup {m \in {n} : \E u \in Worker : thread[u].node = m}
    BY <1>3 DEF Request
  <2> QED
    BY <2>2, <2>3
<1>4. ASSUME t \in Worker, Reply(t)
      PROVE  thread'[t].node \in {thread[t].node, NoNode}
  BY <1>4, GotoIs DEF Reply, Ends, Idle
<1>5. ASSUME t \in Worker, FindHost(t) \/ FindPort(t)
      PROVE  thread'[t].node \in {thread[t].node, NoNode}
  <2>1. thread'[t] \in {[thread[t] EXCEPT !.pc = "find_port"], FindNext(t), Found(t)}
    BY <1>5, GotoIs DEF FindHost, FindPort
  <2> QED
    BY <1>2, <1>5, <2>1 DEF FindNext, NotFound, Found, Slot0, ThreadState
<1>6. ASSUME t \in Worker, Search(t)
      PROVE  thread'[t].node \in {thread[t].node, NoNode}
  <2>1. thread'[t] \in {[thread[t] EXCEPT !.pc = "write", !.left = Half],
                        [thread[t] EXCEPT !.i = @ + 1], Slot0(thread[t], "list")}
    BY <1>6, GotoIs DEF Search
  <2> QED
    BY <1>2, <1>6, <2>1 DEF Slot0, ThreadState
<1>7. ASSUME t \in Worker, ListHost(t)
      PROVE  thread'[t].node \in {thread[t].node, NoNode}
  <2>1. \/ thread'[t] = ListNext(t, thread[t])
        \/ thread'[t] = [thread[t] EXCEPT !.pc = "list_port", !.host = nodes_[thread[t].i].host]
    BY <1>7, GotoIs DEF ListHost
  <2>2. ListNext(t, thread[t]).node = thread[t].node
    BY <1>2, <1>7 DEF ListNext, Slot0, ThreadState
  <2> QED
    BY <1>2, <1>7, <2>1, <2>2 DEF ThreadState
<1>8. ASSUME t \in Worker, ListPort(t)
      PROVE  thread'[t].node \in {thread[t].node, NoNode}
  <2>1. \E l : thread'[t] = ListNext(t, [thread[t] EXCEPT !.host = NoNode.host, !.list = l])
    BY <1>8, GotoIs DEF ListPort
  <2>2. ASSUME NEW l
        PROVE  ListNext(t, [thread[t] EXCEPT !.host = NoNode.host, !.list = l]).node = thread[t].node
    BY <1>2, <1>8 DEF ListNext, Slot0, ThreadState
  <2> QED
    BY <2>1, <2>2
<1> QED
  BY <1>1, <1>2, <1>3, <1>4, <1>5, <1>6, <1>7, <1>8 DEF Moves, WorkerStep

LEMMA AbsentLocal ==
  ASSUME Types, NEW w \in Worker, Absent(w), Moves(w)
  PROVE  Absent(w)'
<1> DEFINE th == thread[w]
<1>1. /\ w \in Thread /\ w # HealthThread /\ th \in ThreadState /\ th.i \in Slot
  BY GoodThread, ThreadAssumption DEF Thread
<1>2. nodes_' = nodes_ /\ twice \subseteq twice' /\ \A j \in Slot : InDoubt(j)' <=> InDoubt(j)
  BY <1>1, LocalStep, SameDoubt, NodeServed DEF Local
<1>3. ASSUME NEW j \in Slot, th.pc \in {"find", "find_port", "search", "write"}, th.node \notin twice',
             th.pc \in {"find", "find_port"} => j < th.i,
             nodes_[j] = th.node
      PROVE  InDoubt(j)
  BY <1>2, <1>3 DEF Absent
<1>4. CASE thread'[w].pc \notin {"find", "find_port", "search", "write"}
  BY <1>4 DEF Absent
<1>5. CASE FindHost(w) /\ nodes_[th.i].host = th.node.host
  <2>1. th.pc = "find" /\ thread'[w] = [th EXCEPT !.pc = "find_port"]
    BY <1>1, <1>5, GotoIs DEF FindHost, At
  <2>2. thread'[w].pc = "find_port" /\ thread'[w].i = th.i /\ thread'[w].node = th.node
    BY <1>1, <2>1 DEF ThreadState
  <2> QED
    BY <1>2, <1>3, <2>1, <2>2 DEF Absent
<1>6. CASE (FindHost(w) \/ FindPort(w)) /\ thread'[w] = FindNext(w) /\ nodes_[th.i] # th.node
  <2>1. th.pc \in {"find", "find_port"}
    BY <1>6 DEF FindHost, FindPort, At
  <2>2. CASE th.i + 1 \in Slot
    <3>1. thread'[w].pc = "find" /\ thread'[w].i = th.i + 1 /\ thread'[w].node = th.node
      BY <1>1, <1>6, <2>2 DEF FindNext, ThreadState
    <3>2. \A j \in Slot : j < th.i + 1 => j < th.i \/ j = th.i
      BY <1>1, MaxNumNodesAssumption DEF Slot
    <3> QED
      BY <1>2, <1>3, <1>6, <2>1, <3>1, <3>2 DEF Absent
  <2>3. CASE th.i + 1 \notin Slot
    <3>1. thread'[w].pc = "search" /\ thread'[w].node = th.node
      BY <1>1, <1>6, <2>3 DEF FindNext, NotFound, Slot0, ThreadState
    <3>2. \A j \in Slot : j < th.i \/ j = th.i
      BY <1>1, <2>3, MaxNumNodesAssumption DEF Slot
    <3> QED
      BY <1>2, <1>3, <1>6, <2>1, <3>1, <3>2 DEF Absent
  <2> QED
    BY <2>2, <2>3
<1>7. CASE Search(w)
  <2>1. /\ th.pc = "search"
        /\ thread'[w] \in {[th EXCEPT !.pc = "write", !.left = Half],
                           [th EXCEPT !.i = @ + 1], Slot0(th, "list")}
    BY <1>1, <1>7, GotoIs DEF Search, At
  <2>2. thread'[w].pc \in {"write", "search", "list"} /\ thread'[w].node = th.node
    BY <1>1, <2>1 DEF ThreadState, Slot0
  <2> QED
    BY <1>2, <1>3, <2>1, <2>2 DEF Absent
<1>8. CASE FindPort(w) /\ nodes_[th.i].port = th.node.port
  <2>1. thread'[w] = Slot0(th, "list")
    BY <1>1, <1>8, GotoIs DEF FindPort, Found
  <2>2. thread'[w].pc = "list"
    BY <1>1, <2>1 DEF ThreadState, Slot0
  <2> QED
    BY <1>4, <2>2
<1>9. CASE ListHost(w) \/ ListPort(w)
  BY <1>1, <1>4, <1>9, ListMoves
<1>10. CASE Reply(w)
  BY <1>1, <1>4, <1>10, GotoIs DEF Reply, Ends, Idle
<1>11. ASSUME NEW n \in Node, Request(w, n) PROVE Absent(w)'
  <2>1. thread'[w] = [Idle EXCEPT !.pc = "find", !.node = n]
    BY <1>1, <1>11, GotoIs DEF Request
  <2>2. thread'[w].pc = "find" /\ thread'[w].i = 0
    BY <2>1 DEF Idle
  <2>3. \A j \in Slot : ~ (j < 0)
    BY MaxNumNodesAssumption DEF Slot
  <2> QED
    BY <2>2, <2>3 DEF Absent
<1>12. /\ FindHost(w) /\ nodes_[th.i].host # th.node.host =>
            thread'[w] = FindNext(w) /\ nodes_[th.i] # th.node
       /\ FindPort(w) /\ nodes_[th.i].port # th.node.port =>
            thread'[w] = FindNext(w) /\ nodes_[th.i] # th.node
  BY <1>1, GotoIs DEF FindHost, FindPort
<1> QED
  BY <1>1, <1>5, <1>6, <1>7, <1>8, <1>9, <1>10, <1>11, <1>12 DEF Moves, WorkerStep

LEMMA OnceLocal ==
  ASSUME Types, Once, NEW t \in Thread, Moves(t)
  PROVE  Once'
<1>1. /\ Types' /\ Local(t) /\ twice \subseteq twice'
      /\ \A j \in Slot : InDoubt(j)' <=> InDoubt(j)
  BY LocalStep, SameDoubt, NodeServed
<1>2. \A u \in Worker \ {t} : u \in Thread /\ thread'[u] = thread[u]
  BY <1>1 DEF Local, Thread
<1>3. NoMemberTwice'
  BY <1>1 DEF Once, NoMemberTwice, InDoubt, Local
<1>4. ASSUME NEW w \in Worker PROVE Absent(w)'
  <2>1. CASE w = t
    BY <1>4, <2>1, AbsentLocal DEF Once
  <2>2. CASE w # t
    BY <1>1, <1>2, <1>4, <2>2 DEF Once, Absent, Local
  <2> QED
    BY <2>1, <2>2
<1>5. ASSUME NEW u \in Worker \ {t}, t \in Worker,
             thread'[u].node = thread'[t].node, thread'[u].node \in Node
      PROVE  thread'[u].node \in twice'
  <2>1. CASE thread'[t].node = thread[t].node
    BY <1>1, <1>2, <1>5, <2>1 DEF Once
  <2>2. CASE thread'[t].node # thread[t].node
    BY <1>2, <1>5, <2>2, NodeServed, NoNodeAssumption
  <2> QED
    BY <2>1, <2>2
<1>6. \A u, w \in Worker : u # w /\ thread'[u].node = thread'[w].node /\ thread'[u].node \in Node
        => thread'[u].node \in twice'
  BY <1>1, <1>2, <1>5 DEF Once
<1> QED
  BY <1>3, <1>4, <1>6 DEF Once

LEMMA OnceWrite ==
  ASSUME Types, Whole, Once, NEW t \in Thread, NEW h \in Half, WriteHalf(t, h)
  PROVE  Once'
<1> DEFINE th == thread[t]
<1>0. PICK i \in Slot : i = th.i
  BY GoodThread
<1> USE <1>0
<1>1. /\ Types' /\ Assigns(t, h) /\ th \in ThreadState /\ i \in Slot /\ Good(t, th)
  BY WriteStep, GoodThread
<1>2. \A u \in Thread \ {t} : thread'[u] = thread[u]
  BY <1>1 DEF Assigns
<1>3. /\ h \in th.left /\ th.left \subseteq Half /\ thread'[t].left = th.left \ {h} /\ twice' = twice
  BY <1>1 DEF Assigns, ThreadState
<1>4. thread'[t].left # {} => /\ thread'[t].i = i /\ thread'[t].pc = th.pc /\ thread'[t].node = th.node
                              /\ thread'[t].left \in {{"host"}, {"port"}}
  BY <1>1, <1>3 DEF Assigns, ThreadState, Half
<1>5. InDoubt(i)' \/ nodes_'[i] = Assigned(t)
  <2>1. CASE thread'[t].left # {}
    BY <1>4, <2>1 DEF InDoubt, MidWrite
  <2>2. CASE thread'[t].left = {}
    <3>1. i \notin mixed' => nodes_'[i] = Assigned(t)
      BY <2>2, WholeWrite
    <3> QED
      BY <3>1 DEF InDoubt
  <2> QED
    BY <2>1, <2>2
<1>6. ASSUME NEW j \in Slot \ {i} PROVE nodes_'[j] = nodes_[j] /\ (InDoubt(j)' <=> InDoubt(j))
  <2>1. ~ MidWrite(t, j) /\ ~ MidWrite(t, j)'
    BY <1>4, <1>6 DEF MidWrite
  <2>2. j \in mixed' <=> j \in mixed
    BY <1>1, <1>6 DEF Assigns, NoteWrite
  <2>3. \A u \in Thread \ {t} : MidWrite(u, j)' <=> MidWrite(u, j)
    BY <1>2 DEF MidWrite
  <2> QED
    BY <1>1, <2>1, <2>2, <2>3 DEF InDoubt, Assigns
<1>7. ASSUME Assigned(t) \in Node
      PROVE  t \in Worker /\ th.pc = "write" /\ Assigned(t) = th.node
  BY <1>1, <1>7, NoNodeAssumption DEF Assigned, Good, HealthOK, HealthPC, Thread
<1>8. t \in Worker => thread'[t].node = th.node
  <2>1. CASE th.left = {h}
    BY <1>1, <2>1, ThreadAssumption DEF Assigns, Written, Slot0, ThreadState
  <2>2. CASE th.left # {h}
    BY <1>1, <2>2 DEF Assigns, ThreadState
  <2> QED
    BY <2>1, <2>2
<1>9. \A u \in Worker : thread'[u].node = thread[u].node
  BY <1>2, <1>8 DEF Thread
<1>10. ASSUME NEW j \in Slot, j # i, nodes_'[j] = nodes_'[i], nodes_'[i] \in Node
       PROVE  nodes_'[i] \in twice \/ InDoubt(i)' \/ InDoubt(j)'
  <2> SUFFICES ASSUME nodes_'[i] \notin twice, ~ InDoubt(i)'
               PROVE  InDoubt(j)'
    OBVIOUS
  <2>1. nodes_'[i] = th.node /\ t \in Worker /\ th.pc = "write" /\ Absent(t)
    BY <1>5, <1>7, <1>10 DEF Once
  <2>2. InDoubt(j)
    BY <1>6, <1>10, <2>1 DEF Absent
  <2> QED
    BY <1>6, <1>10, <2>2
<1>11. NoMemberTwice'
  BY <1>3, <1>6, <1>10 DEF Once, NoMemberTwice, InDoubt
<1>12. ASSUME NEW w \in Worker PROVE Absent(w)'
  <2>1. w \in Thread
    BY DEF Thread
  <2>2. CASE w = t
    <3>1. CASE thread'[t].left = {}
      <4>1. thread'[t].pc = "list"
        BY <1>1, <1>3, <2>2, <3>1, ThreadAssumption DEF Assigns, Written, Slot0, ThreadState
      <4> QED
        BY <2>2, <4>1 DEF Absent
    <3>2. CASE thread'[t].left # {}
      <4>1. InDoubt(i)'
        BY <1>4, <3>2 DEF InDoubt, MidWrite
      <4>2. thread'[t].pc = th.pc /\ thread'[t].i = i /\ thread'[t].node = th.node
        BY <1>4, <3>2
      <4> QED
        BY <1>3, <1>6, <2>2, <4>1, <4>2 DEF Once, Absent
    <3> QED
      BY <3>1, <3>2
  <2>3. CASE w # t
    <3>1. ASSUME thread[w].pc # "idle", nodes_'[i] = thread[w].node, thread[w].node \notin twice
          PROVE  InDoubt(i)'
      <4>1. thread[w].node \in Node
        BY <2>1, <3>1, GoodThread, ThreadAssumption DEF Good, WorkerOK
      <4> QED
        BY <1>5, <1>7, <2>3, <3>1, <4>1 DEF Once
    <3> QED
      BY <1>2, <1>3, <1>6, <2>1, <2>3, <3>1 DEF Once, Absent
  <2> QED
    BY <2>2, <2>3
<1> QED
  BY <1>3, <1>9, <1>11, <1>12 DEF Once

-----------------------------------------------------------------------------
Inv == Types /\ OwnSlot /\ Whole /\ Views /\ Once

LEMMA InvInit == Init => Inv
<1> SUFFICES ASSUME Init PROVE Inv
  OBVIOUS
<1>1. Types /\ OwnSlot
  BY InitTypes
<1>2. \A t \in Thread : thread[t] = Idle
  BY DEF Init
<1>3. Worker \subseteq Thread /\ HealthThread \in Thread
  BY DEF Thread
<1>4. Whole
  BY <1>2, IdleType DEF Whole, HalfWritten, MidWrite
<1>5. Views
  BY <1>2, <1>3, NoListType DEF Views, WorkerView, ListingOK, RegisterOK, HealthView, Idle
<1>6. Once
  <2>1. \A u \in Worker : thread[u].node \notin Node /\ Absent(u)
    BY <1>2, <1>3, IdleType, NoNodeAssumption DEF Absent, Idle
  <2>2. NoMemberTwice
    BY InitTable, NoNodeAssumption DEF NoMemberTwice
  <2> QED
    BY <2>1, <2>2 DEF Once
<1> QED
  BY <1>1, <1>4, <1>5, <1>6 DEF Inv

LEMMA InvNext == Inv /\ [Next]_vars => Inv'
<1> SUFFICES ASSUME Inv, [Next]_vars PROVE Inv'
  OBVIOUS
<1> USE DEF Inv
<1>1. CASE UNCHANGED vars
  <2>1. OwnSlot' /\ Whole'
    BY <1>1 DEF vars, history, OwnSlot, OwnSlotWhole, Writing, Whole, HalfWritten, MidWrite, Assigned
  <2>2. Once'
    <3>1. UNCHANGED <<nodes_, thread, mixed, twice>>
      BY <1>1 DEF vars, history
    <3>2. \A j : InDoubt(j)' <=> InDoubt(j)
      BY <3>1 DEF InDoubt, MidWrite
    <3>3. NoMemberTwice'
      BY <3>1, <3>2 DEF Once, NoMemberTwice, InDoubt
    <3>4. \A w \in Worker : Absent(w)'
      BY <3>1, <3>2 DEF Once, Absent
    <3> QED
      BY <3>1, <3>3, <3>4 DEF Once
  <2> QED
    BY <2>1, <2>2, TypesStep, ViewsStep
<1>2. ASSUME NEW t \in Thread, Moves(t) PROVE Inv'
  BY <1>2, TypesStep, ViewsStep, OwnSlotLocal, WholeLocal, OnceLocal
<1>3. ASSUME NEW t \in Thread, NEW h \in Half, WriteHalf(t, h) PROVE Inv'
  BY <1>3, TypesStep, ViewsStep, OwnSlotWrite, WholeWrite, OnceWrite
<1> QED
  BY <1>1, <1>2, <1>3, StepIs

LEMMA InvSpec == Spec => []Inv
  BY InvInit, InvNext, PTL DEF Spec

-----------------------------------------------------------------------------
(* Every variable keeps its type, halves are left to write only in an      *)
(* assignment, and a listing has only slots that the thread has read.      *)
THEOREM TypeCorrect == Spec => []TypeOK
<1>1. Inv => TypeOK
  <2> SUFFICES ASSUME Types PROVE TypeOK
    BY DEF Inv
  <2>1. ASSUME NEW t \in Thread
        PROVE  /\ Good(t, thread[t]) /\ thread[t] \in ThreadState
               /\ DOMAIN thread[t].list \subseteq Slot
               /\ \A i \in DOMAIN thread[t].list : thread[t].list[i] \in Entry
    <3>1. Good(t, thread[t]) /\ thread[t] \in ThreadState
      BY GoodThread
    <3>2. thread[t].list \in Lists
      BY <3>1 DEF ThreadState
    <3> QED
      BY <3>1, <3>2, ListsDomain
  <2>2. DOMAIN thread = Thread
    BY DEF Types, Threads
  <2> QED
    BY <2>1, <2>2 DEF Types, TypeOK, Good, ThreadState, Host, WorkerPC, HealthPC, Writing
<1> QED
  BY <1>1, InvSpec, PTL

(* Nobody is ever about to write to the slot of the node itself.           *)
THEOREM OwnSlotStays == Spec => []OwnSlotWhole
<1>1. Inv => OwnSlotWhole
  BY DEF Inv, OwnSlot
<1> QED
  BY <1>1, InvSpec, PTL

(* An assignment that ends in a slot which nobody else was writing leaves  *)
(* what it assigned, whatever the order of its halves.                     *)
THEOREM NoTornEntries == Spec => WholeUnlessOverlapped
<1> DEFINE Left == \A t \in Thread :
                     Writing(t) /\ thread'[t].left = {} /\ thread[t].i \notin mixed'
                       => nodes_'[thread[t].i] = Assigned(t)
<1>1. Inv /\ [Next]_vars => [Left]_vars
  <2> SUFFICES ASSUME Inv, Next, NEW t \in Thread,
                      Writing(t), thread'[t].left = {}, thread[t].i \notin mixed'
               PROVE  nodes_'[thread[t].i] = Assigned(t)
    BY DEF Inv
  <2> USE DEF Inv
  <2>1. thread[t].left # {}
    BY GoodThread DEF Good, Writing
  <2>2. ASSUME NEW u \in Thread, Moves(u) PROVE nodes_'[thread[t].i] = Assigned(t)
    BY <2>1, <2>2, LocalStep DEF Local
  <2>3. ASSUME NEW u \in Thread, NEW h \in Half, WriteHalf(u, h)
        PROVE  nodes_'[thread[t].i] = Assigned(t)
    <3>1. Assigns(u, h)
      BY <2>3, WriteStep
    <3>2. u = t
      BY <2>1, <3>1 DEF Assigns
    <3> QED
      BY <2>3, <3>2, WholeWrite
  <2>4. CASE UNCHANGED vars
    BY <2>1, <2>4 DEF vars
  <2> QED
    BY <2>2, <2>3, <2>4, StepIs
<1> QED
  BY <1>1, InvSpec, PTL DEF Spec, WholeUnlessOverlapped

(* A requester that no other writer disturbed is told what the table       *)
(* holds, and is in it unless it is full.                                  *)
THEOREM RequestsIsolated == Spec => []Isolated
<1>1. Inv => Isolated
  BY DEF Inv, Views, WorkerView, ListingOK, RegisterOK, Listed, Full, Isolated
<1> QED
  BY <1>1, InvSpec, PTL

(* A node is in two slots only if two workers served it at once, or an     *)
(* entry is a mixture.                                                     *)
THEOREM MembersOnce == Spec => []NoMemberTwice
<1>1. Inv => NoMemberTwice
  BY DEF Inv, Once
<1> QED
  BY <1>1, InvSpec, PTL

(* GetNodeClient throws only if another thread wrote to the table during   *)
(* the round.                                                              *)
THEOREM ThrowIsDisturbed == Spec => []ThrowHasCause
<1>1. Inv => ThrowHasCause
  BY DEF Inv, Views, HealthView, Running, ThrowHasCause
<1> QED
  BY <1>1, InvSpec, PTL

=============================================================================
