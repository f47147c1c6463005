----------------------------- MODULE RPCChannel ------------------------------
(***************************************************************************)
(* What the client side of one connection promises (classes RPCClient and  *)
(* RPCResponse), seen from the threads that make calls over it: a call     *)
(* sends one request, and while it is open it reads at most one reply.     *)
(* Replies carry no identifier, so only their number matters: an open call *)
(* may read a reply that an earlier call gave up on.  A call that reads    *)
(* nothing gives up (it timed out, or its loop was told to stop).          *)
(***************************************************************************)
EXTENDS Integers

CONSTANT Caller      \* the threads that call over this connection

VARIABLES
  pending,   \* requests the callee has not answered
  unread,    \* replies that no call has read
  open       \* callers whose call has not ended

vars == <<pending, unread, open>>

TypeOK ==
  /\ pending \in Nat
  /\ unread \in Nat
  /\ open \subseteq Caller

Init ==
  /\ pending = 0
  /\ unread = 0
  /\ open = {}

(* The request may be lost on its way.                                     *)
Send(c) ==
  /\ c \notin open
  /\ open' = open \cup {c}
  /\ pending' \in {pending, pending + 1}
  /\ UNCHANGED unread

Answer ==
  /\ pending > 0
  /\ pending' = pending - 1
  /\ unread' = unread + 1
  /\ UNCHANGED open

Lose ==
  /\ pending' \in 0 .. pending
  /\ UNCHANGED <<unread, open>>

ReadReply(c) ==
  /\ c \in open /\ unread > 0
  /\ unread' = unread - 1
  /\ open' = open \ {c}
  /\ UNCHANGED pending

GiveUp(c) ==
  /\ c \in open
  /\ open' = open \ {c}
  /\ UNCHANGED <<pending, unread>>

Next ==
  \/ Answer
  \/ Lose
  \/ \E c \in Caller : Send(c) \/ ReadReply(c) \/ GiveUp(c)

Spec == Init /\ [][Next]_vars

=============================================================================
