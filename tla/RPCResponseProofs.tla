-------------------------- MODULE RPCResponseProofs --------------------------
(***************************************************************************)
(* Theorems about RPCResponse, for any callers and number of calls, any    *)
(* time-out and any word size: type correctness, the three invariants that *)
(* follow from the inductive invariant Inv, the bound on the replies that  *)
(* wait in the socket, and that RPCResponse implements RPCChannel.         *)
(***************************************************************************)
EXTENDS RPCResponse, SequenceTheorems, FiniteSetTheorems, TLAPS

Word == 0 .. WORD - 1

(* The remainder of a small number, to either side of zero.                *)
LEMMA ModSmall ==
  ASSUME NEW a \in Word
  PROVE  a % WORD = a
  BY TimeAssumption DEF Word

LEMMA ModNegative ==
  ASSUME NEW a \in Int, -WORD < a, a < 0
  PROVE  a % WORD = a + WORD
  BY TimeAssumption

LEMMA ModSelf == WORD % WORD = 0
  BY TimeAssumption

(* A sequence of requests stays one when more requests are sent.           *)
LEMMA SeqWider ==
  ASSUME NEW m \in Nat, NEW n \in Nat, m <= n, NEW s \in Seq(1 .. m)
  PROVE  s \in Seq(1 .. n)
<1>1. PICK k \in Nat : s \in [1 .. k -> 1 .. m]
  BY SeqDef
<1>2. 1 .. m \subseteq 1 .. n
  OBVIOUS
<1>3. s \in [1 .. k -> 1 .. n]
  BY <1>1, <1>2
<1> QED
  BY <1>3, SeqDef

-----------------------------------------------------------------------------
LEMMA NoResponseType == NoResponse \in Response
  BY TimeAssumption, MaxCallsAssumption DEF NoResponse, Response, Result

LEMMA TypeInit == Init => TypeOK
<1> SUFFICES ASSUME Init PROVE TypeOK
  OBVIOUS
<1>2. socket \in Seq(1 .. sent)
  BY DEF Init
<1> QED
  BY <1>2, NoResponseType, TimeAssumption, MaxCallsAssumption DEF Init, TypeOK

(* Setting one field of a response to a value of that field.               *)
LEMMA ResponseFields ==
  ASSUME TypeOK, NEW c \in Caller
  PROVE  /\ \A b \in BOOLEAN : [response EXCEPT ![c].running_ = b] \in [Caller -> Response]
         /\ [response EXCEPT ![c].running_ = TRUE, ![c].start_time_ = now] \in [Caller -> Response]
         /\ [response EXCEPT ![c].timedout_ = TRUE] \in [Caller -> Response]
         /\ \A m \in 0 .. MaxCalls :
              [response EXCEPT ![c].received_ = TRUE, ![c].message = m] \in [Caller -> Response]
         /\ \A r \in Result : [response EXCEPT ![c].result = r] \in [Caller -> Response]
         /\ [response EXCEPT ![c] = NoResponse] \in [Caller -> Response]
  BY NoResponseType DEF TypeOK, Response

LEMMA ReceiveFields ==
  ASSUME TypeOK, NEW c \in Caller, NEW m \in 0 .. MaxCalls
  PROVE  [response EXCEPT ![c].received_ = TRUE, ![c].message = m] \in [Caller -> Response]
  BY ResponseFields

LEMMA AfterLoopType ==
  \A c \in Caller, kind \in CallbackKind : AfterLoop(c, kind) \in {"done"} \cup CallbackKind
  BY DEF AfterLoop

(* The destructor of a response.                                           *)
LEMMA GoneType ==
  ASSUME TypeOK, NEW c \in Caller, Gone(c)
  PROVE  /\ pc' \in [Caller -> {"idle", "called", "get", "returned", "joining"}]
         /\ loop' \in [Caller -> {"none", "entry", "test", "receive", "timer", "done"} \cup CallbackKind]
         /\ response' \in [Caller -> Response]
         /\ elapsed' \in [Caller -> 0 .. WORD - 1]
<1>1. response' \in [Caller -> Response]
  BY ResponseFields DEF Gone
<1>2. elapsed' \in [Caller -> 0 .. WORD - 1]
  BY TimeAssumption DEF Gone, TypeOK
<1> QED
  BY <1>1, <1>2 DEF Gone, TypeOK

LEMMA TypeCallers ==
  ASSUME TypeOK, NEW c \in Caller,
         (\E set \in SUBSET CallbackKind : Call(c, set)) \/ CallerStep(c)
  PROVE  TypeOK'
<1> USE DEF network_vars, time_vars
<1>1. ASSUME NEW set \in SUBSET CallbackKind, Call(c, set) PROVE TypeOK'
  <2>1. response' \in [Caller -> Response]
    <3> PICK b \in BOOLEAN : response' = [response EXCEPT ![c] =
               [NoResponse EXCEPT !.running_ = b, !.request = sent + 1, !.callbacks = set]]
      BY <1>1 DEF Call
    <3> DEFINE m == sent + 1
    <3>0. sent \in 0 .. MaxCalls /\ sent < MaxCalls
      BY <1>1 DEF Call, TypeOK
    <3>1. m \in 0 .. MaxCalls
      BY <3>0, MaxCallsAssumption
    <3> HIDE DEF m
    <3>2. [NoResponse EXCEPT !.running_ = b, !.request = m, !.callbacks = set] \in Response
      BY <3>1, NoResponseType DEF Response
    <3>3. response' = [response EXCEPT ![c] =
               [NoResponse EXCEPT !.running_ = b, !.request = m, !.callbacks = set]]
      BY DEF m
    <3> QED
      BY <3>2, <3>3 DEF TypeOK
  <2>2. /\ sent \in 0 .. MaxCalls /\ sent < MaxCalls /\ sent' = sent + 1
        /\ pending \subseteq 1 .. sent /\ pending' = pending \cup {sent'}
    BY <1>1 DEF Call, TypeOK
  <2>4. sent' \in 0 .. MaxCalls /\ pending' \subseteq 1 .. sent'
    BY <2>2, MaxCallsAssumption
  <2>3. socket' \in Seq(1 .. sent')
    <3>1. sent \in Nat /\ sent' \in Nat /\ sent <= sent'
      BY <2>2, MaxCallsAssumption
    <3>2. socket' = socket /\ socket \in Seq(1 .. sent)
      BY <1>1 DEF Call, TypeOK
    <3> QED
      BY <3>1, <3>2, SeqWider
  <2> QED
    BY <1>1, <2>1, <2>3, <2>4 DEF Call, TypeOK
<1>2. CASE Get(c)
  BY <1>2 DEF Get, TypeOK
<1>3. CASE GetReturns(c)
  <2>1. response' \in [Caller -> Response]
    BY <1>3, ResponseFields DEF GetReturns, Result
  <2> QED
    BY <1>3, <2>1 DEF GetReturns, TypeOK
<1>4. CASE DestroySync(c)
  BY <1>4, GoneType DEF DestroySync, TypeOK
<1>5. CASE DestroyAsync(c)
  <2>1. response' \in [Caller -> Response]
    BY <1>5, ResponseFields DEF DestroyAsync
  <2> QED
    BY <1>5, <2>1 DEF DestroyAsync, TypeOK
<1>6. CASE Join(c)
  BY <1>6, GoneType DEF Join, TypeOK
<1> QED
  BY <1>1, <1>2, <1>3, <1>4, <1>5, <1>6 DEF CallerStep

LEMMA TypeLoop ==
  ASSUME TypeOK, NEW c \in Caller, LoopStep(c)
  PROVE  TypeOK'
<1> USE DEF network_vars, time_vars
<1>1. CASE LoopEntry(c)
  <2>1. response' \in [Caller -> Response]
    BY <1>1, ResponseFields DEF LoopEntry
  <2>2. elapsed' \in [Caller -> 0 .. WORD - 1]
    BY <1>1, TimeAssumption DEF LoopEntry, TypeOK
  <2> QED
    BY <1>1, <2>1, <2>2 DEF LoopEntry, TypeOK
<1>2. CASE LoopTest(c)
  <2>1. CASE response[c].running_
    BY <1>2, <2>1 DEF LoopTest, TypeOK
  <2>2. CASE ~ response[c].running_
    <3>1. loop' = [loop EXCEPT ![c] = "done"] /\ given_up' = given_up + 1
      BY <1>2, <2>2, Zenon DEF LoopTest
    <3>2. UNCHANGED <<pc, response, sent, pending, socket, now, elapsed>>
      BY <1>2 DEF LoopTest
    <3> QED
      BY <3>1, <3>2 DEF TypeOK
  <2> QED
    BY <2>1, <2>2
<1>3. CASE LoopReceive(c)
  <2>1. CASE socket # <<>>
    <3>1. Head(socket) \in 0 .. MaxCalls /\ Tail(socket) \in Seq(1 .. sent)
      <4>1. socket \in Seq(1 .. sent) /\ sent \in 0 .. MaxCalls
        BY DEF TypeOK
      <4>2. Head(socket) \in 1 .. sent /\ Tail(socket) \in Seq(1 .. sent)
        BY <4>1, <2>1
      <4> QED
        BY <4>1, <4>2, MaxCallsAssumption
    <3>2. response' \in [Caller -> Response]
      <4> DEFINE m == Head(socket)
      <4>1. m \in 0 .. MaxCalls
        BY <3>1
      <4>2. response' = [response EXCEPT ![c].received_ = TRUE, ![c].message = m]
        BY <1>3, <2>1 DEF LoopReceive
      <4> HIDE DEF m
      <4> QED
        BY <4>1, <4>2, ReceiveFields
    <3>3. socket' \in Seq(1 .. sent)
      BY <1>3, <2>1, <3>1 DEF LoopReceive
    <3>4. AfterLoop(c, "message") \in {"done"} \cup CallbackKind
      BY AfterLoopType DEF CallbackKind
    <3> QED
      BY <1>3, <2>1, <3>2, <3>3, <3>4 DEF LoopReceive, TypeOK
  <2>2. CASE socket = <<>>
    BY <1>3, <2>2 DEF LoopReceive, TypeOK
  <2> QED
    BY <2>1, <2>2
<1>4. CASE LoopTimer(c)
  <2>1. AfterLoop(c, "timeout") \in {"done"} \cup CallbackKind
    BY AfterLoopType DEF CallbackKind
  <2>2. response' \in [Caller -> Response]
    <3>1. CASE HasTimedOut(c)
      <4>1. response' = [response EXCEPT ![c].timedout_ = TRUE]
        BY <1>4, <3>1, Zenon DEF LoopTimer
      <4> QED
        BY <4>1, ResponseFields
    <3>2. CASE ~ HasTimedOut(c)
      BY <1>4, <3>2 DEF LoopTimer, TypeOK
    <3> QED
      BY <3>1, <3>2
  <2>3. given_up' \in Nat
    BY <1>4 DEF LoopTimer, TypeOK
  <2> QED
    BY <1>4, <2>1, <2>2, <2>3 DEF LoopTimer, TypeOK
<1>5. CASE CallbackReturns(c)
  BY <1>5 DEF CallbackReturns, TypeOK
<1> QED
  BY <1>1, <1>2, <1>3, <1>4, <1>5 DEF LoopStep

LEMMA NextWord == TypeOK => (now + 1) % WORD \in Word
<1> SUFFICES ASSUME TypeOK PROVE (now + 1) % WORD \in Word
  OBVIOUS
<1>1. CASE now = WORD - 1
  BY <1>1, ModSelf, TimeAssumption DEF Word
<1>2. CASE now # WORD - 1
  BY <1>2, ModSmall, TimeAssumption DEF Word, TypeOK
<1> QED
  BY <1>1, <1>2

LEMMA TypeNetwork ==
  ASSUME TypeOK, (\E m \in pending : Answer(m) \/ Lose(m)) \/ Tick
  PROVE  TypeOK'
<1> USE DEF network_vars, time_vars
<1>1. ASSUME NEW m \in pending, Answer(m) PROVE TypeOK'
  <2>1. socket' \in Seq(1 .. sent)
    BY <1>1 DEF Answer, TypeOK
  <2> QED
    BY <1>1, <2>1 DEF Answer, TypeOK
<1>2. ASSUME NEW m \in pending, Lose(m) PROVE TypeOK'
  BY <1>2 DEF Lose, TypeOK
<1>3. CASE Tick
  <2>1. now' \in Word
    BY <1>3, NextWord DEF Tick
  <2>2. elapsed' \in [Caller -> Word]
    <3>1. elapsed \in [Caller -> Word]
      BY DEF TypeOK, Word
    <3>2. /\ elapsed' = [d \in Caller |-> IF InLoop(d) THEN elapsed[d] + 1 ELSE elapsed[d]]
          /\ \A d \in Caller : InLoop(d) => elapsed[d] < WORD - 1
      BY <1>3 DEF Tick
    <3>3. \A d \in Caller : InLoop(d) => elapsed[d] + 1 \in Word
      BY <3>1, <3>2, TimeAssumption DEF Word
    <3> QED
      BY <3>1, <3>2, <3>3
  <2>3. UNCHANGED <<pc, loop, response, sent, pending, socket, given_up>>
    BY <1>3 DEF Tick
  <2> QED
    BY <2>1, <2>2, <2>3 DEF TypeOK, Word
<1> QED
  BY <1>1, <1>2, <1>3

LEMMA TypeStep == TypeOK /\ [Next]_vars => TypeOK'
<1> SUFFICES ASSUME TypeOK, [Next]_vars PROVE TypeOK'
  OBVIOUS
<1>1. CASE Next
  BY <1>1, TypeCallers, TypeLoop, TypeNetwork DEF Next
<1>2. CASE UNCHANGED vars
  BY <1>2 DEF vars, network_vars, time_vars, TypeOK
<1> QED
  BY <1>1, <1>2

(* Type correctness of the client side of a connection.                    *)
THEOREM TypeCorrect == Spec => []TypeOK
  BY TypeInit, TypeStep, PTL DEF Spec

-----------------------------------------------------------------------------
(* The inductive invariant of one call, on top of the types: a loop runs   *)
(* only inside a call, and one begins only for a response that is not      *)
(* timed out; while it runs, the ticks since it began are the difference   *)
(* of the two readings of the clock, one WORD more when the clock has      *)
(* wrapped in between.                                                     *)
Since(c) ==
  LET start == response[c].start_time_
  IN IF now >= start THEN now - start ELSE now - start + WORD

CallInv(c) ==
  /\ pc[c] = "idle" => loop[c] = "none"
  /\ c \in SyncCaller /\ pc[c] = "called" => loop[c] = "none" /\ ~ response[c].timedout_
  /\ loop[c] = "entry" => ~ response[c].timedout_
  /\ InLoop(c) => elapsed[c] = Since(c)
  /\ response[c].timedout_ => elapsed[c] >= TIMEOUT_DURATION

(* What a synchronous call adds: nobody clears running_ under its loop, so *)
(* the loop ends with a reply or a time-out.                               *)
SyncInv(c) ==
  /\ InLoop(c) => response[c].running_
  /\ loop[c] \in {"done"} \cup CallbackKind => response[c].received_ \/ response[c].timedout_
  /\ response[c].result # "InternalException"

Inv == TypeOK /\ (\A c \in Caller : CallInv(c)) /\ (\A c \in SyncCaller : SyncInv(c))

LEMMA InvInit == Init => Inv
<1> SUFFICES ASSUME Init PROVE Inv
  OBVIOUS
<1> USE DEF Init, NoResponse, InLoop
<1>1. TypeOK
  BY TypeInit
<1>2. ASSUME NEW c \in Caller PROVE CallInv(c)
  BY DEF CallInv
<1>3. ASSUME NEW c \in SyncCaller PROVE SyncInv(c)
  BY DEF SyncInv, Caller, CallbackKind
<1> QED
  BY <1>1, <1>2, <1>3 DEF Inv

(* A step of one call leaves the other calls alone.                        *)
ThreadStep(c) ==
  (\E set \in SUBSET CallbackKind : Call(c, set)) \/ CallerStep(c) \/ LoopStep(c)

Same(d) ==
  /\ pc'[d] = pc[d] /\ loop'[d] = loop[d]
  /\ response'[d] = response[d] /\ elapsed'[d] = elapsed[d]

LEMMA Frame ==
  ASSUME TypeOK, NEW c \in Caller, ThreadStep(c)
  PROVE  now' = now /\ \A d \in Caller \ {c} : Same(d)
<1> USE DEF network_vars, time_vars, Same, TypeOK
<1>1. ASSUME NEW set \in SUBSET CallbackKind, Call(c, set)
      PROVE  now' = now /\ \A d \in Caller \ {c} : Same(d)
  BY <1>1 DEF Call
<1>2. ASSUME CallerStep(c)
      PROVE  now' = now /\ \A d \in Caller \ {c} : Same(d)
  BY <1>2 DEF CallerStep, Get, GetReturns, DestroySync, DestroyAsync, Join, Gone
<1>3. ASSUME LoopStep(c)
      PROVE  now' = now /\ \A d \in Caller \ {c} : Same(d)
  <2>1. CASE LoopEntry(c)
    BY <2>1 DEF LoopEntry
  <2>2. CASE LoopTest(c)
    BY <2>2 DEF LoopTest
  <2>3. CASE LoopReceive(c)
    BY <2>3 DEF LoopReceive
  <2>4. CASE LoopTimer(c)
    BY <2>4 DEF LoopTimer
  <2>5. CASE CallbackReturns(c)
    BY <2>5 DEF CallbackReturns
  <2> QED
    BY <1>3, <2>1, <2>2, <2>3, <2>4, <2>5 DEF LoopStep
<1> QED
  BY <1>1, <1>2, <1>3 DEF ThreadStep

LEMMA SameInv ==
  ASSUME NEW d \in Caller, Same(d), now' = now
  PROVE  /\ CallInv(d) => CallInv(d)'
         /\ SyncInv(d) => SyncInv(d)'
  BY DEF Same, CallInv, SyncInv, InLoop, Since

(* The steps of the caller, on its own call.                               *)
LEMMA OwnCaller ==
  ASSUME TypeOK, NEW c \in Caller, CallInv(c), c \in SyncCaller => SyncInv(c),
         (\E set \in SUBSET CallbackKind : Call(c, set)) \/ CallerStep(c)
  PROVE  CallInv(c)' /\ (c \in SyncCaller => SyncInv(c)')
<1> DEFINE Goal == CallInv(c)' /\ (c \in SyncCaller => SyncInv(c)')
<1> USE DEF network_vars, time_vars, CallInv, SyncInv, InLoop, CallbackKind
<1>1. ASSUME NEW set \in SUBSET CallbackKind, Call(c, set) PROVE Goal
  <2>1. /\ pc'[c] = "called"
        /\ loop'[c] = IF c \in AsyncCaller THEN "entry" ELSE "none"
    BY <1>1 DEF Call, TypeOK
  <2>2. response'[c].timedout_ = FALSE /\ response'[c].result = "none"
    <3>1. PICK b \in BOOLEAN : response' = [response EXCEPT ![c] =
               [NoResponse EXCEPT !.running_ = b, !.request = sent + 1, !.callbacks = set]]
      BY <1>1 DEF Call
    <3>2. response'[c] =
               [NoResponse EXCEPT !.running_ = b, !.request = sent + 1, !.callbacks = set]
      BY <3>1 DEF TypeOK
    <3> QED
      BY <3>2 DEF NoResponse
  <2>3. c \in SyncCaller => c \notin AsyncCaller
    BY CallerAssumption
  <2>4. loop'[c] \in {"entry", "none"} /\ (c \in SyncCaller => loop'[c] = "none")
    BY <2>1, <2>3
  <2>5. CallInv(c)'
    BY <2>1, <2>2, <2>4
  <2>6. SyncInv(c)'
    BY <2>2, <2>4
  <2> QED
    BY <2>5, <2>6
<1>2. CASE Get(c)
  <2>1. /\ c \in SyncCaller /\ pc[c] = "called" /\ response' = response /\ elapsed' = elapsed
        /\ pc'[c] = "get" /\ loop'[c] = "entry"
    BY <1>2 DEF Get, TypeOK
  <2> QED
    BY <2>1
<1>3. CASE GetReturns(c)
  <2>1. /\ loop[c] = "done" /\ loop' = loop /\ elapsed' = elapsed
        /\ pc'[c] = "returned"
    BY <1>3 DEF GetReturns, TypeOK
  <2>2. /\ response'[c].timedout_ = response[c].timedout_
        /\ response'[c].received_ = response[c].received_
        /\ response'[c].result =
             IF response[c].received_ THEN "reply"
             ELSE IF response[c].timedout_ THEN "TimeoutException" ELSE "InternalException"
    BY <1>3 DEF GetReturns, TypeOK, Response
  <2>3. ASSUME c \in SyncCaller
        PROVE  response'[c].result \in {"reply", "TimeoutException"}
    <3>1. response[c].received_ \/ response[c].timedout_
      BY <2>1, <2>3
    <3> QED
      BY <2>2, <3>1, Zenon
  <2>4. CallInv(c)'
    BY <2>1, <2>2
  <2>5. ASSUME c \in SyncCaller PROVE SyncInv(c)'
    BY <2>1, <2>2, <2>3, <2>5
  <2> QED
    BY <2>4, <2>5
<1>4. CASE DestroySync(c) \/ Join(c)
  <2>1. pc'[c] = "idle" /\ loop'[c] = "none" /\ response'[c] = NoResponse
    BY <1>4 DEF DestroySync, Join, Gone, TypeOK
  <2> QED
    BY <2>1 DEF NoResponse
<1>5. CASE DestroyAsync(c)
  <2>1. /\ c \notin SyncCaller /\ pc'[c] = "joining" /\ loop' = loop
        /\ elapsed' = elapsed /\ now' = now
    BY <1>5, CallerAssumption DEF DestroyAsync, TypeOK
  <2>2. /\ response'[c].timedout_ = response[c].timedout_
        /\ response'[c].start_time_ = response[c].start_time_
    BY <1>5 DEF DestroyAsync, TypeOK, Response
  <2> QED
    BY <2>1, <2>2 DEF Since
<1> QED
  BY <1>1, <1>2, <1>3, <1>4, <1>5 DEF CallerStep

LEMMA SinceIsDifference ==
  ASSUME TypeOK, NEW c \in Caller
  PROVE  (now - response[c].start_time_) % WORD = Since(c)
<1> DEFINE start == response[c].start_time_
<1>1. start \in Word /\ now \in Word
  BY DEF TypeOK, Response, Word
<1> HIDE DEF start
<1>2. CASE now >= start
  <2>1. now - start \in Word
    BY <1>1, <1>2, TimeAssumption DEF Word
  <2>2. (now - start) % WORD = now - start
    BY <2>1, ModSmall
  <2> QED
    BY <1>2, <2>2 DEF Since, start
<1>3. CASE ~ (now >= start)
  <2>1. now - start \in Int /\ -WORD < now - start /\ now - start < 0
    BY <1>1, <1>3, TimeAssumption DEF Word
  <2>2. (now - start) % WORD = now - start + WORD
    BY <2>1, ModNegative
  <2> QED
    BY <1>3, <2>2 DEF Since, start
<1> QED
  BY <1>2, <1>3

(* The steps of the loop, on its own call.                                 *)
LEMMA OwnLoop ==
  ASSUME TypeOK, NEW c \in Caller, CallInv(c), c \in SyncCaller => SyncInv(c),
         LoopStep(c)
  PROVE  CallInv(c)' /\ (c \in SyncCaller => SyncInv(c)')
<1> DEFINE Goal == CallInv(c)' /\ (c \in SyncCaller => SyncInv(c)')
<1> USE DEF network_vars, time_vars, CallInv, SyncInv, InLoop, CallbackKind
<1>0. loop[c] # "none" /\ pc[c] # "idle" /\ pc' = pc /\ (c \in SyncCaller => pc[c] # "called")
  BY DEF LoopStep, LoopEntry, LoopTest, LoopReceive, LoopTimer, CallbackReturns
<1>1. CASE LoopEntry(c)
  <2>1. /\ loop[c] = "entry" /\ loop'[c] = "test" /\ elapsed'[c] = 0 /\ now' = now
    BY <1>1 DEF LoopEntry, TypeOK
  <2>2. /\ response'[c].running_ = TRUE /\ response'[c].start_time_ = now
        /\ response'[c].timedout_ = response[c].timedout_
        /\ response'[c].result = response[c].result
    BY <1>1 DEF LoopEntry, TypeOK, Response
  <2>3. Since(c)' = 0
    BY <2>1, <2>2 DEF Since, TypeOK
  <2> QED
    BY <1>0, <2>1, <2>2, <2>3
<1>2. CASE LoopTest(c)
  <2>1. response' = response /\ elapsed' = elapsed /\ now' = now /\ loop[c] = "test"
    BY <1>2 DEF LoopTest
  <2>2. loop'[c] \in {"receive", "done"} /\ (loop'[c] = "done" => ~ response[c].running_)
    <3>1. CASE response[c].running_
      BY <1>2, <3>1 DEF LoopTest, TypeOK
    <3>2. CASE ~ response[c].running_
      <4>1. loop' = [loop EXCEPT ![c] = "done"]
        BY <1>2, <3>2, Zenon DEF LoopTest
      <4> QED
        BY <3>2, <4>1 DEF TypeOK
    <3> QED
      BY <3>1, <3>2
  <2> QED
    BY <1>0, <2>1, <2>2 DEF Since
<1>3. CASE LoopReceive(c)
  <2>1. elapsed' = elapsed /\ now' = now /\ loop[c] = "receive"
    BY <1>3 DEF LoopReceive
  <2>2. CASE socket # <<>>
    <3>1. /\ loop'[c] \in {"done", "message"} /\ response'[c].received_ = TRUE
          /\ response'[c].timedout_ = response[c].timedout_
          /\ response'[c].result = response[c].result
      BY <1>3, <2>2 DEF LoopReceive, AfterLoop, TypeOK, Response
    <3> QED
      BY <1>0, <2>1, <3>1
  <2>3. CASE socket = <<>>
    <3>1. loop'[c] = "timer" /\ response' = response
      BY <1>3, <2>3 DEF LoopReceive, TypeOK
    <3> QED
      BY <1>0, <2>1, <3>1 DEF Since
  <2> QED
    BY <2>2, <2>3
<1>4. CASE LoopTimer(c)
  <2>1. elapsed' = elapsed /\ now' = now /\ loop[c] = "timer"
    BY <1>4 DEF LoopTimer
  <2>2. CASE HasTimedOut(c)
    <3>1. elapsed[c] >= TIMEOUT_DURATION
      BY <2>1, <2>2, SinceIsDifference DEF HasTimedOut
    <3>2. /\ response' = [response EXCEPT ![c].timedout_ = TRUE]
          /\ loop' = [loop EXCEPT ![c] = AfterLoop(c, "timeout")]
      BY <1>4, <2>2, Zenon DEF LoopTimer
    <3>3. /\ loop'[c] \in {"done", "timeout"} /\ response'[c].timedout_ = TRUE
          /\ response'[c].result = response[c].result
      BY <3>2 DEF AfterLoop, TypeOK, Response
    <3> QED
      BY <1>0, <2>1, <3>1, <3>3
  <2>3. CASE ~ HasTimedOut(c)
    <3>1. loop'[c] = "test" /\ response' = response
      BY <1>4, <2>3 DEF LoopTimer, TypeOK
    <3> QED
      BY <1>0, <2>1, <3>1 DEF Since
  <2> QED
    BY <2>2, <2>3
<1>5. CASE CallbackReturns(c)
  <2>1. /\ loop[c] \in CallbackKind /\ loop'[c] = "done"
        /\ response' = response /\ elapsed' = elapsed /\ now' = now
    BY <1>5 DEF CallbackReturns, TypeOK
  <2> QED
    BY <1>0, <2>1
<1> QED
  BY <1>1, <1>2, <1>3, <1>4, <1>5 DEF LoopStep

(* A tick: a running loop has not yet seen a whole WORD go by, so one step *)
(* of the clock is one more in the difference, across the wrap too.        *)
LEMMA TickInv ==
  ASSUME TypeOK, Tick, NEW c \in Caller
  PROVE  /\ CallInv(c) => CallInv(c)'
         /\ SyncInv(c) => SyncInv(c)'
<1> USE DEF network_vars
<1>1. UNCHANGED <<pc, loop, response>>
  BY DEF Tick
<1>2. SyncInv(c) => SyncInv(c)'
  BY <1>1 DEF SyncInv, InLoop
<1>3. elapsed[c] \in Nat /\ elapsed'[c] = IF InLoop(c) THEN elapsed[c] + 1 ELSE elapsed[c]
  BY DEF Tick, TypeOK
<1>4. ASSUME InLoop(c), elapsed[c] = Since(c) PROVE elapsed'[c] = Since(c)'
  <2> DEFINE start == response[c].start_time_
  <2>1. start \in Word /\ now \in Word
    BY DEF TypeOK, Response, Word
  <2>2. elapsed[c] < WORD - 1 /\ elapsed'[c] = elapsed[c] + 1
    BY <1>3, <1>4 DEF Tick
  <2>3. /\ Since(c) = IF now >= start THEN now - start ELSE now - start + WORD
        /\ Since(c)' = IF now' >= start THEN now' - start ELSE now' - start + WORD
    BY <1>1 DEF Since
  <2>4. now' = IF now = WORD - 1 THEN 0 ELSE now + 1
    <3>1. CASE now = WORD - 1
      BY <3>1, ModSelf, TimeAssumption DEF Tick
    <3>2. CASE now # WORD - 1
      <4>1. now + 1 \in Word
        BY <2>1, <3>2, TimeAssumption DEF Word
      <4> QED
        BY <3>2, <4>1, ModSmall DEF Tick
    <3> QED
      BY <3>1, <3>2
  <2> HIDE DEF start
  <2> QED
    BY <1>4, <2>1, <2>2, <2>3, <2>4, TimeAssumption DEF Word
<1>5. CallInv(c) => CallInv(c)'
  BY <1>1, <1>3, <1>4, TimeAssumption DEF CallInv, InLoop
<1> QED
  BY <1>2, <1>5

LEMMA InvStep == Inv /\ [Next]_vars => Inv'
<1> SUFFICES ASSUME Inv, [Next]_vars PROVE Inv'
  OBVIOUS
<1>0. TypeOK /\ TypeOK'
  BY TypeStep DEF Inv
<1> DEFINE Kept(d) == CallInv(d)' /\ (d \in SyncCaller => SyncInv(d)')
<1> SUFFICES ASSUME NEW d \in Caller PROVE Kept(d)
  BY <1>0 DEF Inv, Caller
<1>1. CallInv(d) /\ (d \in SyncCaller => SyncInv(d))
  BY DEF Inv
<1>2. ASSUME NEW c \in Caller, ThreadStep(c) PROVE Kept(d)
  <2>1. CASE c = d
    BY <1>0, <1>1, <1>2, <2>1, OwnCaller, OwnLoop DEF ThreadStep
  <2>2. CASE c # d
    BY <1>0, <1>1, <1>2, <2>2, Frame, SameInv
  <2> QED
    BY <2>1, <2>2
<1>3. CASE (\E m \in pending : Answer(m) \/ Lose(m)) \/ UNCHANGED vars
  <2>1. Same(d) /\ now' = now
    BY <1>3 DEF Answer, Lose, Same, vars, time_vars
  <2> QED
    BY <1>1, <2>1, SameInv
<1>4. CASE Tick
  BY <1>0, <1>1, <1>4, TickInv
<1> QED
  BY <1>2, <1>3, <1>4 DEF Next, ThreadStep

LEMMA Invariance == Spec => []Inv
  BY InvInit, InvStep, PTL DEF Spec

(* No thread works on a response that is gone: a loop, or a callback of    *)
(* it, runs only between the creation of an RPCResponse and the end of its *)
(* destructor (RPCResponse.cpp:30-38, 87-112).                             *)
THEOREM NothingOutlivesTheResponse == Spec => []LoopWithinResponse
<1>1. Inv => LoopWithinResponse
  BY DEF Inv, CallInv, LoopWithinResponse
<1> QED
  BY <1>1, Invariance, PTL

(* The unsigned difference of two clock readings never reports a time-out  *)
(* early, whatever the word, the time-out and the reading at which the     *)
(* loop began (RPCResponse.cpp:81-85), provided the loop looks at the      *)
(* clock before a whole WORD has gone by (the bound in Tick).              *)
THEOREM TimeoutsAreDue == Spec => []NoEarlyTimeout
<1>1. Inv => NoEarlyTimeout
  BY DEF Inv, CallInv, NoEarlyTimeout
<1> QED
  BY <1>1, Invariance, PTL

(* Get() never reaches the exception it reserves for the impossible case   *)
(* (RPCResponse.cpp:123-139): in a synchronous call no thread but the loop *)
(* writes running_, and the loop writes it first.                          *)
THEOREM GetHasAnOutcome == Spec => []GetNeverInternal
<1>1. Inv => GetNeverInternal
  BY DEF Inv, SyncInv, GetNeverInternal
<1> QED
  BY <1>1, Invariance, PTL

-----------------------------------------------------------------------------
(* The client as a channel.  A call is open exactly while its loop may     *)
(* still read a reply, for which the loop has to be inside its call.       *)
LoopWithinCall ==
  \A c \in Caller :
    loop[c] \in {"entry", "test", "receive", "timer"} => pc[c] \in {"called", "get", "joining"}

(* What a step of the client, the callee or the network does to the        *)
(* channel: one of these, whatever else it does.                           *)
Begins(c) ==
  /\ c \notin Open /\ Open' = Open \cup {c}
  /\ sent + 1 \notin pending /\ pending' = pending \cup {sent + 1}
  /\ UNCHANGED <<socket, given_up>>

Reads(c) ==
  /\ c \in Open /\ Open' = Open \ {c}
  /\ socket # <<>> /\ socket' = Tail(socket)
  /\ UNCHANGED <<pending, given_up>>

Quits(c) ==
  /\ c \in Open /\ Open' = Open \ {c}
  /\ given_up' = given_up + 1
  /\ UNCHANGED <<pending, socket>>

Quiet == Open' = Open /\ UNCHANGED <<pending, socket, given_up>>

Delivered(m) ==
  /\ pending' = pending \ {m} /\ socket' = Append(socket, m)
  /\ Open' = Open /\ UNCHANGED given_up

Dropped(m) ==
  /\ pending' = pending \ {m}
  /\ Open' = Open /\ UNCHANGED <<socket, given_up>>

LEMMA WithinInit == Init => LoopWithinCall
  BY DEF Init, LoopWithinCall

LEMMA WithinStep == TypeOK /\ LoopWithinCall /\ [Next]_vars => LoopWithinCall'
<1> SUFFICES ASSUME TypeOK, LoopWithinCall, [Next]_vars, NEW d \in Caller
             PROVE  loop'[d] \in {"entry", "test", "receive", "timer"} =>
                      pc'[d] \in {"called", "get", "joining"}
  BY DEF LoopWithinCall
<1> USE DEF LoopWithinCall
<1>1. ASSUME NEW c \in Caller, ThreadStep(c), c # d
      PROVE  pc'[d] = pc[d] /\ loop'[d] = loop[d]
  BY <1>1, Frame DEF Same
<1>2. CASE \E set \in SUBSET CallbackKind : Call(d, set)
  BY <1>2 DEF Call, TypeOK
<1>3. CASE CallerStep(d)
  <2>1. CASE Get(d) \/ GetReturns(d)
    BY <2>1 DEF Get, GetReturns, TypeOK
  <2>2. CASE DestroySync(d) \/ DestroyAsync(d) \/ Join(d)
    BY <2>2 DEF DestroySync, DestroyAsync, Join, Gone, TypeOK
  <2> QED
    BY <1>3, <2>1, <2>2 DEF CallerStep
<1>4. CASE LoopStep(d)
  <2>1. CASE CallbackReturns(d)
    BY <2>1 DEF CallbackReturns, TypeOK
  <2>2. CASE ~ CallbackReturns(d)
    BY <1>4, <2>2 DEF LoopStep, LoopEntry, LoopTest, LoopReceive, LoopTimer
  <2> QED
    BY <2>1, <2>2
<1>5. CASE (\E m \in pending : Answer(m) \/ Lose(m)) \/ Tick \/ UNCHANGED vars
  BY <1>5 DEF Answer, Lose, Tick, vars
<1> QED
  BY <1>1, <1>2, <1>3, <1>4, <1>5 DEF Next, ThreadStep

(* Only its own steps open or end a call.                                  *)
LEMMA OpenFrame ==
  ASSUME TypeOK, NEW c \in Caller, ThreadStep(c)
  PROVE  \A d \in Caller \ {c} : d \in Open' <=> d \in Open
  BY Frame DEF Same, Open

LEMMA CallOnChannel ==
  ASSUME TypeOK, NEW c \in Caller, NEW set \in SUBSET CallbackKind, Call(c, set)
  PROVE  Begins(c)
<1>1. c \notin Open
  BY DEF Call, Open
<1>2. c \in Open'
  <2>1. pc'[c] = "called" /\ loop'[c] \in {"entry", "none"}
    BY DEF Call, TypeOK
  <2> QED
    BY <2>1 DEF Open, CallbackKind
<1>3. Open' = Open \cup {c}
  <2>1. Open' \subseteq Caller /\ Open \subseteq Caller
    BY DEF Open
  <2> QED
    BY <1>2, <2>1, OpenFrame DEF ThreadStep
<1>4. sent + 1 \notin pending
  BY DEF TypeOK
<1> QED
  BY <1>1, <1>3, <1>4 DEF Call, Begins

LEMMA CallerOnChannel ==
  ASSUME Inv, TypeOK, NEW c \in Caller, CallerStep(c)
  PROVE  Quiet
<1>1. c \in Open' <=> c \in Open
  <2> USE DEF TypeOK, Open, CallbackKind
  <2>1. CASE Get(c)
    <3>1. loop[c] = "none" /\ pc[c] = "called"
      BY <2>1 DEF Get, Inv, CallInv
    <3>2. loop'[c] = "entry" /\ pc'[c] = "get"
      BY <2>1 DEF Get
    <3> QED
      BY <3>1, <3>2
  <2>2. CASE GetReturns(c)
    BY <2>2 DEF GetReturns
  <2>3. CASE DestroySync(c) \/ Join(c)
    BY <2>3 DEF DestroySync, Join, Gone
  <2>4. CASE DestroyAsync(c)
    BY <2>4 DEF DestroyAsync
  <2> QED
    BY <2>1, <2>2, <2>3, <2>4 DEF CallerStep
<1>2. Open' = Open
  <2>1. Open' \subseteq Caller /\ Open \subseteq Caller
    BY DEF Open
  <2> QED
    BY <1>1, <2>1, OpenFrame DEF ThreadStep
<1> QED
  BY <1>2 DEF CallerStep, Get, GetReturns, DestroySync, DestroyAsync, Join, network_vars, Quiet

LEMMA LoopOnChannel ==
  ASSUME TypeOK, LoopWithinCall, NEW c \in Caller, LoopStep(c)
  PROVE  Quiet \/ Reads(c) \/ Quits(c)
<1> USE DEF network_vars
<1>0. /\ Open' \subseteq Caller /\ Open \subseteq Caller
      /\ \A d \in Caller \ {c} : d \in Open' <=> d \in Open
  BY OpenFrame DEF ThreadStep, Open
<1>1. CASE LoopEntry(c)
  <2>1. c \in Open' <=> c \in Open
    BY <1>1 DEF LoopEntry, TypeOK, Open, CallbackKind
  <2> QED
    BY <1>0, <1>1, <2>1 DEF LoopEntry, Quiet
<1>2. CASE LoopTest(c)
  <2>1. c \in Open
    BY <1>2 DEF LoopTest, LoopWithinCall, Open, CallbackKind
  <2>2. CASE response[c].running_
    <3>1. loop' = [loop EXCEPT ![c] = "receive"] /\ UNCHANGED <<pc, pending, socket, given_up>>
      BY <1>2, <2>2, Zenon DEF LoopTest
    <3>2. c \in Open'
      BY <2>1, <3>1 DEF TypeOK, Open, CallbackKind
    <3> QED
      BY <1>0, <2>1, <3>1, <3>2 DEF Quiet
  <2>3. CASE ~ response[c].running_
    <3>1. /\ loop' = [loop EXCEPT ![c] = "done"] /\ given_up' = given_up + 1
          /\ UNCHANGED <<pending, socket>>
      BY <1>2, <2>3, Zenon DEF LoopTest
    <3>2. c \notin Open'
      BY <3>1 DEF TypeOK, Open
    <3> QED
      BY <1>0, <2>1, <3>1, <3>2 DEF Quits
  <2> QED
    BY <2>2, <2>3
<1>3. CASE LoopReceive(c)
  <2>1. c \in Open
    BY <1>3 DEF LoopReceive, LoopWithinCall, Open, CallbackKind
  <2>2. CASE socket # <<>>
    <3>1. loop'[c] \in {"done"} \cup CallbackKind
      BY <1>3, <2>2 DEF LoopReceive, AfterLoop, TypeOK, CallbackKind
    <3>2. c \notin Open'
      BY <3>1 DEF Open
    <3> QED
      BY <1>0, <1>3, <2>1, <2>2, <3>2 DEF LoopReceive, Reads
  <2>3. CASE socket = <<>>
    <3>1. loop' = [loop EXCEPT ![c] = "timer"] /\ pc' = pc
      BY <1>3, <2>3 DEF LoopReceive
    <3>2. c \in Open'
      BY <2>1, <3>1 DEF TypeOK, Open, CallbackKind
    <3>3. UNCHANGED <<pending, socket, given_up>>
      BY <1>3, <2>3 DEF LoopReceive
    <3> QED
      BY <1>0, <2>1, <3>2, <3>3 DEF Quiet
  <2> QED
    BY <2>2, <2>3
<1>4. CASE LoopTimer(c)
  <2>1. c \in Open
    BY <1>4 DEF LoopTimer, LoopWithinCall, Open, CallbackKind
  <2>2. CASE HasTimedOut(c)
    <3>1. loop' = [loop EXCEPT ![c] = AfterLoop(c, "timeout")] /\ given_up' = given_up + 1
      BY <1>4, <2>2, Zenon DEF LoopTimer
    <3>2. c \notin Open'
      BY <3>1, AfterLoopType DEF TypeOK, Open, CallbackKind
    <3> QED
      BY <1>0, <1>4, <2>1, <3>1, <3>2 DEF LoopTimer, Quits
  <2>3. CASE ~ HasTimedOut(c)
    <3>1. loop' = [loop EXCEPT ![c] = "test"] /\ UNCHANGED given_up
      BY <1>4, <2>3, Zenon DEF LoopTimer
    <3>2. c \in Open'
      BY <1>4, <2>1, <3>1 DEF LoopTimer, TypeOK, Open, CallbackKind
    <3>3. UNCHANGED <<pending, socket>>
      BY <1>4 DEF LoopTimer
    <3> QED
      BY <1>0, <2>1, <3>1, <3>2, <3>3 DEF Quiet
  <2> QED
    BY <2>2, <2>3
<1>5. CASE CallbackReturns(c)
  <2>1. c \notin Open /\ c \notin Open'
    BY <1>5 DEF CallbackReturns, TypeOK, Open
  <2> QED
    BY <1>0, <1>5, <2>1 DEF CallbackReturns, Quiet
<1> QED
  BY <1>1, <1>2, <1>3, <1>4, <1>5 DEF LoopStep

LEMMA StepOnChannel ==
  ASSUME Inv, LoopWithinCall, [Next]_vars
  PROVE  \/ \E c \in Caller : Begins(c) \/ Reads(c) \/ Quits(c)
         \/ \E m \in pending : Delivered(m) \/ Dropped(m)
         \/ Quiet
<1>0. TypeOK
  BY DEF Inv
<1>1. ASSUME NEW c \in Caller, ThreadStep(c)
      PROVE  Begins(c) \/ Reads(c) \/ Quits(c) \/ Quiet
  BY <1>0, <1>1, CallOnChannel, CallerOnChannel, LoopOnChannel DEF ThreadStep
<1>2. ASSUME NEW m \in pending, Answer(m) \/ Lose(m)
      PROVE  Delivered(m) \/ Dropped(m)
  BY <1>2 DEF Answer, Lose, Delivered, Dropped, Open
<1>3. CASE Tick \/ UNCHANGED vars
  BY <1>3 DEF Tick, vars, network_vars, Open, Quiet
<1> QED
  BY <1>1, <1>2, <1>3 DEF Next, ThreadStep

-----------------------------------------------------------------------------
(* The bound on what waits in the socket or is still to come.  Each kind   *)
(* of step keeps the balance; the number of callers may be infinite, but   *)
(* only finitely many calls are open.                                      *)
BacklogInv == LoopWithinCall /\ IsFiniteSet(Open) /\ BacklogHasCause

LEMMA BacklogInit == Init => BacklogInv
<1> SUFFICES ASSUME Init PROVE BacklogInv
  OBVIOUS
<1>1. Open = {} /\ pending = {} /\ Len(socket) = 0 /\ given_up = 0
  BY DEF Init, Open
<1> QED
  BY <1>1, WithinInit, FS_EmptySet DEF BacklogInv, BacklogHasCause

(* The requests under way are finitely many, and so are natural numbers    *)
(* all the terms of the balance.                                           *)
LEMMA BacklogTypes ==
  ASSUME TypeOK, IsFiniteSet(Open)
  PROVE  /\ IsFiniteSet(pending) /\ Cardinality(pending) \in Nat
         /\ Cardinality(Open) \in Nat /\ Len(socket) \in Nat /\ given_up \in Nat
<1>1. IsFiniteSet(1 .. sent)
  BY FS_Interval DEF TypeOK
<1>2. IsFiniteSet(pending)
  BY <1>1, FS_Subset DEF TypeOK
<1> QED
  BY <1>2, FS_CardinalityType, LenProperties DEF TypeOK

LEMMA BacklogStep == Inv /\ BacklogInv /\ [Next]_vars => BacklogInv'
<1> SUFFICES ASSUME Inv, TypeOK, BacklogInv, [Next]_vars PROVE BacklogInv'
  BY DEF Inv
<1> USE DEF BacklogInv, BacklogHasCause
<1>0. LoopWithinCall'
  BY WithinStep
<1> DEFINE p == Cardinality(pending)
           o == Cardinality(Open)
           l == Len(socket)
<1>t. /\ IsFiniteSet(pending) /\ p \in Nat /\ o \in Nat /\ l \in Nat /\ given_up \in Nat
      /\ l + p <= given_up + o
  BY BacklogTypes
<1>1. ASSUME NEW c \in Caller, Begins(c) PROVE BacklogInv'
  <2>1. Cardinality(pending') = p + 1
    BY <1>t, <1>1, FS_AddElement DEF Begins
  <2>2. IsFiniteSet(Open') /\ Cardinality(Open') = o + 1
    BY <1>1, FS_AddElement DEF Begins
  <2> HIDE DEF p, o, l
  <2>3. Len(socket') = l /\ given_up' = given_up
    BY <1>1 DEF Begins, l
  <2> QED
    BY <1>0, <1>t, <2>1, <2>2, <2>3
<1>2. ASSUME NEW c \in Caller, Reads(c) PROVE BacklogInv'
  <2>1. IsFiniteSet(Open') /\ Cardinality(Open') = o - 1
    BY <1>2, FS_RemoveElement DEF Reads
  <2>2. Len(socket') = l - 1
    BY <1>2, HeadTailProperties DEF Reads, TypeOK
  <2> HIDE DEF o, l
  <2>3. Cardinality(pending') = p /\ given_up' = given_up
    BY <1>2 DEF Reads
  <2> HIDE DEF p
  <2> QED
    BY <1>0, <1>t, <2>1, <2>2, <2>3
<1>3. ASSUME NEW c \in Caller, Quits(c) PROVE BacklogInv'
  <2>1. IsFiniteSet(Open') /\ Cardinality(Open') = o - 1
    BY <1>3, FS_RemoveElement DEF Quits
  <2>2. Len(socket') = l /\ Cardinality(pending') = p /\ given_up' = given_up + 1
    BY <1>3 DEF Quits
  <2> HIDE DEF p, o, l
  <2> QED
    BY <1>0, <1>t, <2>1, <2>2
<1>4. ASSUME NEW m \in pending, Delivered(m) \/ Dropped(m) PROVE BacklogInv'
  <2>1. Cardinality(pending') = p - 1
    BY <1>t, <1>4, FS_RemoveElement DEF Delivered, Dropped
  <2>2. Len(socket') <= l + 1 /\ Len(socket') \in Nat
    BY <1>4, AppendProperties, LenProperties DEF Delivered, Dropped, TypeOK
  <2>3. IsFiniteSet(Open') /\ Cardinality(Open') = o /\ given_up' = given_up
    BY <1>4 DEF Delivered, Dropped
  <2> HIDE DEF p, o, l
  <2> QED
    BY <1>0, <1>t, <2>1, <2>2, <2>3
<1>5. CASE Quiet
  BY <1>0, <1>5 DEF Quiet
<1> QED
  BY <1>1, <1>2, <1>3, <1>4, <1>5, StepOnChannel

(* A reply in the socket, or one still to come, is accounted for by a call *)
(* that is open or one that gave up, so that a caller which is alone and   *)
(* whose predecessors all read a reply cannot be given a late one          *)
(* (RPCResponse.cpp:89-112, RPCStore.hpp: one socket per callee).          *)
THEOREM BacklogExplained == Spec => []BacklogHasCause
<1>1. BacklogInv => BacklogHasCause
  BY DEF BacklogInv
<1> QED
  BY <1>1, BacklogInit, BacklogStep, Invariance, PTL DEF Spec

-----------------------------------------------------------------------------
(* Each kind of step is one of the channel's, or a stutter.                *)
LEMMA ChannelInit == Init => Channel!Init
<1> SUFFICES ASSUME Init PROVE Channel!Init
  OBVIOUS
<1>1. Open = {} /\ pending = {} /\ Len(socket) = 0
  BY DEF Init, Open
<1> QED
  BY <1>1, FS_EmptySet DEF Channel!Init

LEMMA ChannelStep ==
  ASSUME Inv, TypeOK, BacklogInv, [Next]_vars
  PROVE  [Channel!Next]_(Channel!vars)
<1> DEFINE p == Cardinality(pending)
<1>t. IsFiniteSet(pending) /\ p \in Nat /\ Len(socket) \in Nat
  BY BacklogTypes DEF BacklogInv
<1>1. ASSUME NEW c \in Caller, Begins(c) PROVE Channel!Send(c)
  <2>1. Cardinality(pending') = p + 1
    BY <1>t, <1>1, FS_AddElement DEF Begins
  <2> QED
    BY <1>1, <2>1 DEF Begins, Channel!Send
<1>2. ASSUME NEW c \in Caller, Reads(c) PROVE Channel!ReadReply(c)
  <2>1. Len(socket') = Len(socket) - 1 /\ Len(socket) > 0
    BY <1>t, <1>2, HeadTailProperties, EmptySeq DEF Reads, TypeOK
  <2> QED
    BY <1>2, <2>1 DEF Reads, Channel!ReadReply
<1>3. ASSUME NEW c \in Caller, Quits(c) PROVE Channel!GiveUp(c)
  BY <1>3 DEF Quits, Channel!GiveUp
<1>4. ASSUME NEW m \in pending, Delivered(m) \/ Dropped(m)
      PROVE  Channel!Answer \/ Channel!Lose
  <2>1. Cardinality(pending') = p - 1 /\ p - 1 \in Nat
    <3>1. Cardinality(pending') = p - 1 /\ IsFiniteSet(pending')
      BY <1>t, <1>4, FS_RemoveElement DEF Delivered, Dropped
    <3> QED
      BY <3>1, FS_CardinalityType
  <2>2. CASE Delivered(m)
    <3>1. Len(socket') = Len(socket) + 1
      BY <2>2, AppendProperties DEF Delivered, TypeOK
    <3> QED
      BY <1>t, <2>1, <2>2, <3>1 DEF Delivered, Channel!Answer
  <2>3. CASE Dropped(m)
    BY <1>t, <2>1, <2>3 DEF Dropped, Channel!Lose
  <2> QED
    BY <1>4, <2>2, <2>3
<1>5. CASE Quiet
  BY <1>5 DEF Quiet, Channel!vars
<1> QED
  BY <1>1, <1>2, <1>3, <1>4, <1>5, StepOnChannel DEF BacklogInv, Channel!Next

(* The client side of a connection, with its threads, flags, clock and     *)
(* destructor, does to the channel no more than RPCChannel allows: each    *)
(* call sends one request and reads at most one reply (RPCResponse.cpp:    *)
(* 30-139, RPCClient.cpp).                                                 *)
THEOREM ClientImplementsChannel == Spec => ImplementsChannel
<1>1. Spec => [](Inv /\ BacklogInv)
  BY BacklogInit, BacklogStep, Invariance, PTL DEF Spec
<1>2. Inv /\ BacklogInv /\ [Next]_vars => [Channel!Next]_(Channel!vars)
  BY ChannelStep DEF Inv
<1> QED
  BY <1>1, <1>2, ChannelInit, PTL DEF Spec, ImplementsChannel, Channel!Spec

=============================================================================
