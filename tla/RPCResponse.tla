----------------------------- MODULE RPCResponse -----------------------------
(***************************************************************************)
(* The client side of one connection, thread by thread: RPCClient::Call    *)
(* and the life of the RPCResponse it returns.  The store keeps one client *)
(* per callee for the whole process, so all calls to that callee share one *)
(* DEALER socket.                                                          *)
(*                                                                         *)
(* A synchronous caller (Cluster::Bootstrap) runs the receive loop itself, *)
(* in Get().  An asynchronous caller (Health::PerformHealthChecks) drops   *)
(* the RPCResponse at the end of the call expression: the constructor      *)
(* started a thread that runs the loop, the destructor stores FALSE into   *)
(* running_ and joins that thread, while the thread itself stores TRUE     *)
(* into running_ when it starts.                                           *)
(*                                                                         *)
(* Time is the 32-bit millisecond counter of CurrentTime, which wraps.     *)
(***************************************************************************)
EXTENDS Integers, Sequences, FiniteSets

CONSTANTS
  SyncCaller,        \* threads that call Get()
  AsyncCaller,       \* threads that rely on the callbacks
  TIMEOUT_DURATION,  \* timeout_duration_ (3000)
  WORD,              \* number of values of an unsigned (2^32)
  MaxCalls           \* bound: requests sent in a behaviour

Caller == SyncCaller \cup AsyncCaller

ASSUME CallerAssumption == SyncCaller \cap AsyncCaller = {}
ASSUME TimeAssumption ==
  /\ WORD \in Nat /\ TIMEOUT_DURATION \in Nat
  /\ 0 < TIMEOUT_DURATION /\ TIMEOUT_DURATION < WORD
ASSUME MaxCallsAssumption == MaxCalls \in Nat

VARIABLES
  pc,         \* per caller: "idle", "called", "get", "returned", "joining"
  loop,       \* per caller: step of MessageReceiptMainWorkLoop, or "none"
  response,   \* per caller: the fields of its RPCResponse, see NoResponse
  sent,       \* requests sent so far, numbered from 1
  pending,    \* requests in the network or with the callee
  socket,     \* client_socket_: replies received and not read, in order
  now,        \* CurrentTime()
  elapsed,    \* history: ticks since the loop read start_time_
  given_up    \* history: loops that ended without a reply

network_vars == <<sent, pending, socket>>
time_vars == <<now, elapsed>>
vars == <<pc, loop, response, network_vars, time_vars, given_up>>

CallbackKind == {"message", "timeout"}

Result == {"none", "reply", "TimeoutException", "InternalException"}

Response == [running_ : BOOLEAN, received_ : BOOLEAN, timedout_ : BOOLEAN,
             start_time_ : 0 .. WORD - 1,
             request : 0 .. MaxCalls,          \* the request of its own call
             message : 0 .. MaxCalls,          \* the request whose reply it read
             callbacks : SUBSET CallbackKind,  \* those set in its RPCCall
             result : Result]                  \* what Get() returned

NoResponse == [running_ |-> FALSE, received_ |-> FALSE, timedout_ |-> FALSE,
               start_time_ |-> 0, request |-> 0, message |-> 0,
               callbacks |-> {}, result |-> "none"]

InLoop(c) == loop[c] \in {"test", "receive", "timer"}

Init ==
  /\ pc = [c \in Caller |-> "idle"]
  /\ loop = [c \in Caller |-> "none"]
  /\ response = [c \in Caller |-> NoResponse]
  /\ sent = 0
  /\ pending = {}
  /\ socket = <<>>
  /\ now \in 0 .. WORD - 1
  /\ elapsed = [c \in Caller |-> 0]
  /\ given_up = 0

-----------------------------------------------------------------------------
(* RPCClient::Call sends the request and constructs the RPCResponse, which *)
(* leaves running_ indeterminate; for an asynchronous call the constructor *)
(* starts the thread.                                                      *)
Call(c, set) ==
  /\ pc[c] = "idle" /\ sent < MaxCalls
  /\ c \in SyncCaller => set = {}
  /\ sent' = sent + 1
  /\ pending' = pending \cup {sent + 1}
  /\ \E b \in BOOLEAN : response' = [response EXCEPT ![c] =
       [NoResponse EXCEPT !.running_ = b, !.request = sent + 1, !.callbacks = set]]
  /\ pc' = [pc EXCEPT ![c] = "called"]
  /\ loop' = [loop EXCEPT ![c] = IF c \in AsyncCaller THEN "entry" ELSE "none"]
  /\ UNCHANGED <<socket, time_vars, given_up>>

(* Get() calls MessageReceiptMainWorkLoop(false).                          *)
Get(c) ==
  /\ c \in SyncCaller /\ pc[c] = "called"
  /\ pc' = [pc EXCEPT ![c] = "get"]
  /\ loop' = [loop EXCEPT ![c] = "entry"]
  /\ UNCHANGED <<response, network_vars, time_vars, given_up>>

-----------------------------------------------------------------------------
(* MessageReceiptMainWorkLoop.                                             *)

(* Mutant: running_ is left as the constructor left it.                    *)
MutLoopEntryNoStore(c) ==
  /\ loop[c] = "entry"
  /\ response' = [response EXCEPT ![c].start_time_ = now]
  /\ elapsed' = [elapsed EXCEPT ![c] = 0]
  /\ loop' = [loop EXCEPT ![c] = "test"]
  /\ UNCHANGED <<pc, network_vars, now, given_up>>

LoopEntry(c) ==
  /\ loop[c] = "entry"
  /\ response' = [response EXCEPT ![c].running_ = TRUE, ![c].start_time_ = now]
  /\ elapsed' = [elapsed EXCEPT ![c] = 0]
  /\ loop' = [loop EXCEPT ![c] = "test"]
  /\ UNCHANGED <<pc, network_vars, now, given_up>>

LoopTest(c) ==
  /\ loop[c] = "test"
  /\ IF response[c].running_
       THEN loop' = [loop EXCEPT ![c] = "receive"] /\ UNCHANGED given_up
       ELSE loop' = [loop EXCEPT ![c] = "done"] /\ given_up' = given_up + 1
  /\ UNCHANGED <<pc, response, network_vars, time_vars>>

(* The callback runs only in an asynchronous call (do_cb) that has set it. *)
AfterLoop(c, kind) == IF kind \in response[c].callbacks THEN kind ELSE "done"

(* Mutant: the return after a reply is missing.                            *)
MutLoopReceiveGoesOn(c) ==
  /\ loop[c] = "receive" /\ loop' = [loop EXCEPT ![c] = "timer"]
  /\ \/ /\ socket # <<>>
        /\ response' = [response EXCEPT ![c].received_ = TRUE, ![c].message = Head(socket)]
        /\ socket' = Tail(socket)
     \/ socket = <<>> /\ UNCHANGED <<response, socket>>
  /\ UNCHANGED <<pc, sent, pending, time_vars, given_up>>

(* socket_->receive(received_message_, true) does not block; it reads the  *)
(* oldest reply in the socket, whichever request that reply answers.       *)
LoopReceive(c) ==
  /\ loop[c] = "receive"
  /\ \/ /\ socket # <<>>
        /\ response' = [response EXCEPT ![c].received_ = TRUE, ![c].message = Head(socket)]
        /\ socket' = Tail(socket)
        /\ loop' = [loop EXCEPT ![c] = AfterLoop(c, "message")]
     \/ /\ socket = <<>>
        /\ loop' = [loop EXCEPT ![c] = "timer"]
        /\ UNCHANGED <<response, socket>>
  /\ UNCHANGED <<pc, sent, pending, time_vars, given_up>>

(* Mutants: a deadline that wraps; a difference that does not.             *)
MutDeadlineWraps(c) == now >= (response[c].start_time_ + TIMEOUT_DURATION) % WORD

MutSignedDifference(c) == now - response[c].start_time_ >= TIMEOUT_DURATION

(* Unsigned subtraction: right across a wrap of the counter.               *)
HasTimedOut(c) == (now - response[c].start_time_) % WORD >= TIMEOUT_DURATION

(* Mutant: the request is sent again when the timer runs out.              *)
MutLoopTimerResends(c) ==
  /\ loop[c] = "timer" /\ loop' = [loop EXCEPT ![c] = "test"]
  /\ IF HasTimedOut(c)
       THEN /\ response' = [response EXCEPT ![c].start_time_ = now]
            /\ sent' = sent + 1 /\ pending' = pending \cup {sent + 1}
       ELSE UNCHANGED <<response, sent, pending>>
  /\ UNCHANGED <<pc, socket, time_vars, given_up>>

LoopTimer(c) ==
  /\ loop[c] = "timer"
  /\ \/ /\ HasTimedOut(c)
        /\ response' = [response EXCEPT ![c].timedout_ = TRUE]
        /\ loop' = [loop EXCEPT ![c] = AfterLoop(c, "timeout")]
        /\ given_up' = given_up + 1
     \/ /\ ~ HasTimedOut(c)
        /\ loop' = [loop EXCEPT ![c] = "test"]
        /\ UNCHANGED <<response, given_up>>
  /\ UNCHANGED <<pc, network_vars, time_vars>>

(* The callback returns and the loop with it.                              *)
CallbackReturns(c) ==
  /\ loop[c] \in CallbackKind
  /\ loop' = [loop EXCEPT ![c] = "done"]
  /\ UNCHANGED <<pc, response, network_vars, time_vars, given_up>>

-----------------------------------------------------------------------------
(* The rest of Get(): a reply, the time-out error or the internal error.   *)
GetReturns(c) ==
  /\ pc[c] = "get" /\ loop[c] = "done"
  /\ response' = [response EXCEPT ![c].result =
       IF response[c].received_ THEN "reply"
       ELSE IF response[c].timedout_ THEN "TimeoutException" ELSE "InternalException"]
  /\ pc' = [pc EXCEPT ![c] = "returned"]
  /\ UNCHANGED <<loop, network_vars, time_vars, given_up>>

(* The RPCResponse is gone; its fields mean nothing any more.              *)
Gone(c) ==
  /\ pc' = [pc EXCEPT ![c] = "idle"]
  /\ loop' = [loop EXCEPT ![c] = "none"]
  /\ response' = [response EXCEPT ![c] = NoResponse]
  /\ elapsed' = [elapsed EXCEPT ![c] = 0]

(* ~RPCResponse: no thread to wait for in a synchronous call ...           *)
DestroySync(c) ==
  /\ c \in SyncCaller /\ pc[c] = "returned"
  /\ Gone(c)
  /\ UNCHANGED <<network_vars, now, given_up>>

(* Mutant: the thread is not joined.                                       *)
MutDestroyAsyncDetached(c) ==
  /\ c \in AsyncCaller /\ pc[c] = "called"
  /\ pc' = [pc EXCEPT ![c] = "idle"]
  /\ response' = [response EXCEPT ![c].running_ = FALSE]
  /\ UNCHANGED <<loop, network_vars, time_vars, given_up>>

(* ... and in an asynchronous one the loop is told to stop,                *)
DestroyAsync(c) ==
  /\ c \in AsyncCaller /\ pc[c] = "called"
  /\ response' = [response EXCEPT ![c].running_ = FALSE]
  /\ pc' = [pc EXCEPT ![c] = "joining"]
  /\ UNCHANGED <<loop, network_vars, time_vars, given_up>>

(* and the thread is joined.                                               *)
Join(c) ==
  /\ pc[c] = "joining" /\ loop[c] = "done"
  /\ Gone(c)
  /\ UNCHANGED <<network_vars, now, given_up>>

-----------------------------------------------------------------------------
(* The callee has four workers: replies arrive in any order.               *)
Answer(m) ==
  /\ m \in pending
  /\ pending' = pending \ {m}
  /\ socket' = Append(socket, m)
  /\ UNCHANGED <<pc, loop, response, sent, time_vars, given_up>>

(* A crash of the callee or a broken connection.                           *)
Lose(m) ==
  /\ m \in pending
  /\ pending' = pending \ {m}
  /\ UNCHANGED <<pc, loop, response, sent, socket, time_vars, given_up>>

(* Mutant: a clock that does not wrap.                                     *)
MutTickWide ==
  /\ \E c \in Caller : InLoop(c)
  /\ now' = now + 1
  /\ UNCHANGED <<pc, loop, response, network_vars, elapsed, given_up>>

(* Bound: a loop gets to look at the clock before a whole WORD has gone by.*)
Tick ==
  /\ \E c \in Caller : InLoop(c)
  /\ \A c \in Caller : InLoop(c) => elapsed[c] < WORD - 1
  /\ now' = (now + 1) % WORD
  /\ elapsed' = [c \in Caller |-> IF InLoop(c) THEN elapsed[c] + 1 ELSE elapsed[c]]
  /\ UNCHANGED <<pc, loop, response, network_vars, given_up>>

-----------------------------------------------------------------------------
LoopStep(c) ==
  LoopEntry(c) \/ LoopTest(c) \/ LoopReceive(c) \/ LoopTimer(c) \/ CallbackReturns(c)

CallerStep(c) ==
  Get(c) \/ GetReturns(c) \/ DestroySync(c) \/ DestroyAsync(c) \/ Join(c)

Next ==
  \/ \E c \in Caller : \/ \E set \in SUBSET CallbackKind : Call(c, set)
                       \/ CallerStep(c)
                       \/ LoopStep(c)
  \/ \E m \in pending : Answer(m) \/ Lose(m)
  \/ Tick

Spec == Init /\ [][Next]_vars

(* The threads run and the clock advances; the callee need not answer.     *)
Fairness ==
  /\ \A c \in Caller : WF_vars(CallerStep(c)) /\ WF_vars(LoopStep(c))
  /\ WF_vars(Tick)

FairSpec == Spec /\ Fairness

-----------------------------------------------------------------------------
(* Every variable stays in its set.                                        *)
TypeOK ==
  /\ pc \in [Caller -> {"idle", "called", "get", "returned", "joining"}]
  /\ loop \in [Caller -> {"none", "entry", "test", "receive", "timer", "done"} \cup CallbackKind]
  /\ response \in [Caller -> Response]
  /\ sent \in 0 .. MaxCalls
  /\ pending \subseteq 1 .. sent
  /\ socket \in Seq(1 .. sent)
  /\ now \in 0 .. WORD - 1
  /\ elapsed \in [Caller -> 0 .. WORD - 1]
  /\ given_up \in Nat

(* A loop, and the callback it runs, lives only inside its RPCResponse:    *)
(* the thread uses socket_, rpc_call_ and the fields of an object that the *)
(* destructor ends, so nothing may run once the caller is past it.         *)
LoopWithinResponse ==
  \A c \in Caller : pc[c] = "idle" => loop[c] = "none"

(* A call is reported as timed out only after TIMEOUT_DURATION ticks since *)
(* its loop began, wherever the 32-bit counter stood and when it wrapped.  *)
NoEarlyTimeout ==
  \A c \in Caller : response[c].timedout_ => elapsed[c] >= TIMEOUT_DURATION

(* "Will never get here, but just in case." (RPCResponse.cpp:138): when    *)
(* Get() returns it has a reply or a time-out, although it starts from an  *)
(* indeterminate running_ and shares its socket with other calls.          *)
GetNeverInternal ==
  \A c \in SyncCaller : response[c].result # "InternalException"

(* A call is open from the send until its loop has a reply, a time-out, or *)
(* leaves.                                                                 *)
Open == {c \in Caller : /\ pc[c] \in {"called", "get", "joining"}
                        /\ loop[c] \notin {"done"} \cup CallbackKind}

(* What is in the socket or still to come has a cause: at most one reply   *)
(* for every open call and one for every call that gave up, so a call that *)
(* is alone, after calls that all read a reply, cannot read a late one.    *)
BacklogHasCause ==
  Len(socket) + Cardinality(pending) <= given_up + Cardinality(Open)

(* Every call comes back to its caller: join() and Get() do not wait for   *)
(* ever on a callee that is silent.                                        *)
CallReturns == \A c \in Caller : pc[c] # "idle" ~> pc[c] = "idle"

(* The client implements RPCChannel.                                       *)
Channel == INSTANCE RPCChannel WITH
  pending <- Cardinality(pending),
  unread <- Len(socket),
  open <- Open

ImplementsChannel == Channel!Spec

(* "The RPC call we are responding to." (RPCResponse.hpp:28): the reply a  *)
(* response reads answers the request of its own call.  The code does not  *)
(* keep this.                                                              *)
ReplyMatchesCall ==
  \A c \in Caller : response[c].received_ => response[c].message = response[c].request

=============================================================================
