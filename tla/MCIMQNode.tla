----------------------------- MODULE MCIMQNode -------------------------------
(* Small instances of IMQNode for TLC: the leader and perhaps another peer. *)
EXTENDS IMQNode

CONSTANT lead

(* The leader registered the caller in its second slot, or it has another   *)
(* member there and a full table.                                           *)
MCLeaderList ==
  { [i \in 0 .. 1 |-> IF i = 0 THEN lead ELSE n] : n \in Node \ {lead} }

=============================================================================
